---------------------------- MODULE Spec2Model ----------------------------
(***************************************************************************)
(* A model of the climate analytics engine of src/src/lib/climate-utils.ts *)
(* (kimpi32/climate): the pure functions that turn a list of daily         *)
(* temperature records into annual anomalies, a regression forecast,       *)
(* z-score flags, a seasonal decomposition and a moving average.           *)
(*                                                                         *)
(* Numbers.  A JavaScript number is modelled exactly: a rational, or one   *)
(* of the three IEEE specials NaN, +Infinity, -Infinity, extended by the   *)
(* square roots Math.sqrt produces.  Rounding is not modelled (the         *)
(* arithmetic is exact), and the sign of zero is not modelled (every zero  *)
(* divisor of the code is a +0: a length, n - 2, a sum of squares).        *)
(*                                                                         *)
(* Dates.  A "YYYY-MM-DD" string is the integer YYYYMMDD: slice(0, 4) is   *)
(* date \div 10000, slice(5, 7) is (date \div 100) % 100, slice(0, 7) is   *)
(* date \div 100, and the order of the strings is the order of the         *)
(* integers (four-digit years, zero-padded months and days).               *)
(***************************************************************************)
EXTENDS Integers, Sequences, FiniteSets, TLC

VARIABLES
    records,    \* the DailyRecord[] the engine is called with
    result,     \* what the last call returned (or that it threw)
    data,       \* the {year, value}[] movingAverage is called with, or the
                \* rows an ingestion run has received
    held,       \* the result of an earlier call that its caller still holds
    home,       \* the Home page: its state and the loads it has started
    hexMap,     \* the HexMap component: its state
    paging      \* fetchCityData: where its loops stand

\* the state outside the engine
others == <<home, hexMap, paging>>

vars == <<records, result, data, held, home, hexMap, paging>>

---------------------------------------------------------------------------
(***************************************************************************)
(* Rationals with the IEEE specials: <<n, d>> with d > 0 and gcd(n, d) = 1 *)
(* is n/d; <<0, 0>> is NaN, <<1, 0>> is +Infinity, <<-1, 0>> is -Infinity. *)
(***************************************************************************)
AbsInt(i) == IF i < 0 THEN -i ELSE i

SgnInt(i) == IF i < 0 THEN -1 ELSE IF i > 0 THEN 1 ELSE 0

RECURSIVE GCD(_, _)
GCD(a, b) == IF b = 0 THEN a ELSE GCD(b, a % b)

QNaN == <<0, 0>>
QInf(s) == <<s, 0>>
QZero == <<0, 1>>

QFinite(x) == x[2] # 0
QIsNaN(x) == x = QNaN

\* n/d in lowest terms, for d # 0
QNorm(n, d) ==
    LET g == GCD(AbsInt(n), AbsInt(d))
        s == SgnInt(d)
    IN  <<(s * n) \div g, AbsInt(d) \div g>>

QNeg(x) == <<-x[1], x[2]>>

QAdd(x, y) ==
    IF QIsNaN(x) \/ QIsNaN(y) THEN QNaN
    ELSE IF ~QFinite(x) /\ ~QFinite(y) THEN (IF x = y THEN x ELSE QNaN)
    ELSE IF ~QFinite(x) THEN x
    ELSE IF ~QFinite(y) THEN y
    ELSE LET g == GCD(x[2], y[2])
             l == (x[2] \div g) * y[2]
         IN  QNorm(x[1] * (l \div x[2]) + y[1] * (l \div y[2]), l)

QSub(x, y) == QAdd(x, QNeg(y))

QMul(x, y) ==
    IF QIsNaN(x) \/ QIsNaN(y) THEN QNaN
    ELSE IF ~QFinite(x) \/ ~QFinite(y)
         THEN (IF x[1] = 0 \/ y[1] = 0 THEN QNaN
               ELSE QInf(SgnInt(x[1]) * SgnInt(y[1])))
    ELSE LET g1 == GCD(AbsInt(x[1]), y[2])
             g2 == GCD(AbsInt(y[1]), x[2])
         IN  <<(x[1] \div g1) * (y[1] \div g2), (x[2] \div g2) * (y[2] \div g1)>>

\* IEEE division: x/0 is +-Infinity for x # 0 and NaN for x = 0
QDiv(x, y) ==
    IF QIsNaN(x) \/ QIsNaN(y) THEN QNaN
    ELSE IF ~QFinite(y)
         THEN (IF QFinite(x) THEN QZero ELSE QNaN)
    ELSE IF y[1] = 0
         THEN (IF x[1] = 0 THEN QNaN ELSE QInf(SgnInt(x[1])))
    ELSE IF ~QFinite(x) THEN QInf(x[1] * SgnInt(y[1]))
    ELSE QMul(x, QNorm(y[2], y[1]))

\* x < y; every comparison with NaN is false
QLt(x, y) ==
    IF QIsNaN(x) \/ QIsNaN(y) THEN FALSE
    ELSE IF ~QFinite(x) \/ ~QFinite(y)
         THEN (IF ~QFinite(x) /\ ~QFinite(y) THEN x[1] < y[1]
               ELSE IF ~QFinite(x) THEN x[1] < 0
               ELSE y[1] > 0)
    ELSE QSub(x, y)[1] < 0

\* the integer square root of n >= 0, by bisection on lo..hi
RECURSIVE ISqrtIn(_, _, _)
ISqrtIn(n, lo, hi) ==
    IF lo >= hi THEN lo
    ELSE LET mid == (lo + hi + 1) \div 2
         IN  IF mid <= n \div mid THEN ISqrtIn(n, mid, hi)
             ELSE ISqrtIn(n, lo, mid - 1)

ISqrt(n) == ISqrtIn(n, 0, IF n < 46340 THEN n ELSE 46340)

IsSquare(n) == ISqrt(n) * ISqrt(n) = n


---------------------------------------------------------------------------
(***************************************************************************)
(* Numbers: [a |-> q, sq |-> s] is  q + sgn(s) * sqrt(|s|)  for rationals  *)
(* q and s, where |s| is not the square of a rational unless s = 0 (a      *)
(* rational root is folded into a), so that equal numbers have equal       *)
(* representations.  NaN and the infinities have sq = 0.                   *)
(***************************************************************************)
Num(q) == [a |-> q, sq |-> QZero]

R(i) == Num(<<i, 1>>)

Frac(n, d) == Num(QNorm(n, d))

NaN == Num(QNaN)

IsNaN(x) == QIsNaN(x.a)

IsFiniteNum(x) == QFinite(x.a)

\* the signed square sgn(v) * v^2 of a rational or special v
QSignedSquare(q) ==
    IF QFinite(q) THEN <<SgnInt(q[1]) * q[1] * q[1], q[2] * q[2]>> ELSE q

\* the signed square of a number that is a rational or a pure root
SignedSquare(x) ==
    CASE x.sq = QZero -> QSignedSquare(x.a)
      [] x.a = QZero  -> x.sq

\* the number whose signed square is s
FromSignedSquare(s) ==
    IF ~QFinite(s) THEN Num(s)
    ELSE IF IsSquare(AbsInt(s[1])) /\ IsSquare(s[2])
         THEN Num(<<SgnInt(s[1]) * ISqrt(AbsInt(s[1])), ISqrt(s[2])>>)
    ELSE [a |-> QZero, sq |-> s]

Neg(x) == [a |-> QNeg(x.a), sq |-> QNeg(x.sq)]

\* x + y, where the two root parts are zero, equal or opposite
Add(x, y) ==
    IF ~QFinite(x.a) \/ ~QFinite(y.a) THEN Num(QAdd(x.a, y.a))
    ELSE [a  |-> QAdd(x.a, y.a),
          sq |-> CASE x.sq = QZero      -> y.sq
                   [] y.sq = QZero      -> x.sq
                   [] x.sq = QNeg(y.sq) -> QZero
                   [] x.sq = y.sq       -> QMul(<<4, 1>>, x.sq)]

Sub(x, y) == Add(x, Neg(y))

\* x * y, each a rational or a pure root
Mul(x, y) ==
    IF x.sq = QZero /\ y.sq = QZero THEN Num(QMul(x.a, y.a))
    ELSE FromSignedSquare(QMul(SignedSquare(x), SignedSquare(y)))

\* x / y, each a rational or a pure root
Div(x, y) ==
    IF x.sq = QZero /\ y.sq = QZero THEN Num(QDiv(x.a, y.a))
    ELSE FromSignedSquare(QDiv(SignedSquare(x), SignedSquare(y)))

\* x ** 2 for a rational x
Square(x) == Mul(x, x)

\* Math.sqrt of a rational or special: NaN below zero
MathSqrt(x) ==
    IF QIsNaN(x.a) \/ x.a[1] < 0 THEN NaN ELSE FromSignedSquare(x.a)

\* Math.abs of a rational or a pure root
MathAbs(x) ==
    [a  |-> <<AbsInt(x.a[1]), x.a[2]>>,
     sq |-> <<AbsInt(x.sq[1]), x.sq[2]>>]

\* x > y for rationals and pure roots (the signed square is increasing)
Gt(x, y) == QLt(SignedSquare(y), SignedSquare(x))

\* the function f itself, tabulated once instead of evaluated at every use
Tabulated(f) == f @@ <<>>

\* the sum of f[lo..hi], 0 for an empty range.  reduce((a, b) => a + b, 0)
\* adds from the left; the sum is exact, so it is evaluated here as a
\* balanced sum, which keeps the evaluation shallow.
RECURSIVE SumInt(_, _, _)
SumInt(f, lo, hi) ==
    IF lo > hi THEN 0
    ELSE IF lo = hi THEN f[lo]
    ELSE LET mid == (lo + hi) \div 2
         IN  SumInt(f, lo, mid) + SumInt(f, mid + 1, hi)

RECURSIVE SumNum(_, _, _)
SumNum(f, lo, hi) ==
    IF lo > hi THEN R(0)
    ELSE IF lo = hi THEN Add(R(0), f[lo])
    ELSE LET mid == (lo + hi) \div 2
         IN  Add(SumNum(f, lo, mid), SumNum(f, mid + 1, hi))

\* temps.reduce((a, b) => a + b, 0) / temps.length, for whole-number temps
MeanInt(temps) == Div(R(SumInt(temps, 1, Len(temps))), R(Len(temps)))

\* vals.reduce((a, b) => a + b, 0) / vals.length
MeanNum(vals) == Div(SumNum(vals, 1, Len(vals)), R(Len(vals)))

---------------------------------------------------------------------------
(***************************************************************************)
(* Daily records.  A DailyRecord is [date, avgTemp, minTemp, maxTemp] with *)
(* the date an integer YYYYMMDD and whole-number temperatures.             *)
(***************************************************************************)
BASELINE_START == 1973
BASELINE_END == 2000

\* parseInt(date.slice(0, 4))
YearOf(date) == date \div 10000

\* date.slice(0, 7), the "YYYY-MM" key
MonthKey(date) == date \div 100

IsLeapYear(y) == (y % 4 = 0 /\ y % 100 # 0) \/ y % 400 = 0

\* days of a common year before the end of month m (m = 0: none)
CommonYearDays == <<0, 31, 59, 90, 120, 151, 181, 212, 243, 273, 304, 334, 365>>

\* month * 100 + day of the k-th day of a common year, and of a leap year
CommonYearCalendar ==
    [k \in 1..365 |->
        LET m == CHOOSE mm \in 1..12 :
                     CommonYearDays[mm] < k /\ k <= CommonYearDays[mm + 1]
        IN  m * 100 + (k - CommonYearDays[m])]

LeapYearCalendar ==
    [k \in 1..366 |->
        IF k <= 59 THEN CommonYearCalendar[k]
        ELSE IF k = 60 THEN 229
        ELSE CommonYearCalendar[k - 1]]

\* the date of the k-th day of year y
DateOfDay(y, k) ==
    y * 10000 + (IF IsLeapYear(y) THEN LeapYearCalendar[k] ELSE CommonYearCalendar[k])

DailyRecord(date, t) ==
    [date |-> date, avgTemp |-> t, minTemp |-> t - 4, maxTemp |-> t + 5]

\* the temperature of day k in a sequence of segments [n, t]
RECURSIVE SegmentTemp(_, _)
SegmentTemp(shape, k) ==
    IF Len(shape) = 1 \/ k <= shape[1].n THEN shape[1].t
    ELSE SegmentTemp(Tail(shape), k - shape[1].n)

ShapeDays(shape) == SumInt([i \in DOMAIN shape |-> shape[i].n], 1, Len(shape))

\* the records of the first days of year y, one per day, with the
\* temperatures of the shape's segments
YearRecords(y, shape) ==
    Tabulated([k \in 1..ShapeDays(shape) |->
                  DailyRecord(DateOfDay(y, k), SegmentTemp(shape, k))])

Reversed(s) == Tabulated([i \in 1..Len(s) |-> s[Len(s) + 1 - i]])

---------------------------------------------------------------------------
(***************************************************************************)
(* A Map<K, number[]> filled by  records.forEach(r => { if (!map.has(k))   *)
(* map.set(k, []); map.get(k).push(r.avgTemp) }): its keys in insertion    *)
(* order (the order in which each key is first seen) and, per key, the     *)
(* temperatures of the records with that key, in input order.              *)
(***************************************************************************)
\* the elements of S as a sequence ascending by rank[x] (ranks are distinct)
SortedBy(S, rank) ==
    LET ranks == Tabulated([x \in S |-> rank[x]])
        pos == Tabulated([x \in S |-> Cardinality({z \in S : ranks[z] < ranks[x]})])
    IN  Tabulated([i \in 1..Cardinality(S) |-> CHOOSE x \in S : pos[x] = i - 1])

\* the greatest element of a non-empty set of integers
MaxOf(S) == CHOOSE x \in S : \A z \in S : x >= z

\* the concatenation of parts[lo..hi], a sequence of sequences
RECURSIVE Flatten(_, _, _)
Flatten(parts, lo, hi) ==
    IF lo > hi THEN <<>>
    ELSE IF lo = hi THEN parts[lo]
    ELSE LET mid == (lo + hi) \div 2
         IN  Flatten(parts, lo, mid) \o Flatten(parts, mid + 1, hi)

\* keyOf[i] is the key of record i.  The records are grouped run by run: a
\* run is a maximal stretch of consecutive records with the same key, a key
\* is first seen at the start of its first run, and its temperatures are
\* those of its runs, in order.
\* the positions at which a run starts, in ascending order
RunStarts(ks) ==
    LET starts == {i \in DOMAIN ks : IF i = 1 THEN TRUE ELSE ks[i - 1] # ks[i]}
    IN  SortedBy(starts, [i \in starts |-> i])

\* the temperatures of the runs js, one run after the other
RunTemps(avgTemps, runStart, js) ==
    Flatten([n \in DOMAIN js |->
                SubSeq(avgTemps, runStart[js[n]],
                       IF js[n] = Len(runStart) THEN Len(avgTemps)
                       ELSE runStart[js[n] + 1] - 1)],
            1, Len(js))

GroupedRuns(avgTemps, ks, runStart) ==
    LET keySet == {ks[i] : i \in DOMAIN ks}
        runs == DOMAIN runStart
        runsOf == Tabulated([k \in keySet |->
                      SortedBy({j \in runs : ks[runStart[j]] = k}, [j \in runs |-> j])])
    IN  [keys |-> SortedBy(keySet, [k \in keySet |-> runStart[runsOf[k][1]]]),
         get  |-> Tabulated([k \in keySet |-> RunTemps(avgTemps, runStart, runsOf[k])])]

GroupTemps(recs, keyOf) ==
    GroupedRuns(Tabulated([i \in DOMAIN recs |-> recs[i].avgTemp]),
                Tabulated(keyOf), RunStarts(Tabulated(keyOf)))

\* Array.from(map.keys()).sort((a, b) => a - b), and .sort() on "YYYY-MM"
\* strings: the keys (distinct) in ascending order
SortAscending(keys) ==
    LET S == {keys[i] : i \in DOMAIN keys}
    IN  SortedBy(S, [x \in S |-> x])

\* an absent value (null) of a number | null field
Null == [null |-> TRUE]

\* x || 0 for a number x: 0 and NaN are falsy
OrZero(x) == IF x = R(0) \/ IsNaN(x) THEN R(0) ELSE x

---------------------------------------------------------------------------
(***************************************************************************)
(* The engine: src/src/lib/climate-utils.ts                                *)
(***************************************************************************)
InBaselineAfterStart(year) == year > BASELINE_START /\ year <= BASELINE_END

InBaselineOrLater(year) == year >= BASELINE_START

\* year >= BASELINE_START && year <= BASELINE_END
InBaseline(year) == year >= BASELINE_START /\ year <= BASELINE_END

calcBaselineAnnualMean(recs) ==
    LET baselineRecords == SelectSeq(recs, LAMBDA r : InBaseline(YearOf(r.date)))
    IN  IF Len(baselineRecords) = 0 THEN R(0)
        ELSE MeanInt([i \in DOMAIN baselineRecords |-> baselineRecords[i].avgTemp])

\* parseInt(date.slice(5, 7))
MonthOf(date) == (date \div 100) % 100

\* an optional argument: <<>> when it is left out, <<v>> when it is v
Undefined == <<>>

\* arg ?? fallback
OrElse(arg, fallback) == IF arg = Undefined THEN fallback ELSE arg[1]

\* the mean over the records of all months of the years bStart..bEnd
BaselineMeanOfAllMonths(recs, bStart, bEnd, month) ==
    LET kept == {i \in DOMAIN recs :
                    YearOf(recs[i].date) >= bStart /\ YearOf(recs[i].date) <= bEnd}
    IN  IF Cardinality(kept) > 0
        THEN Div(R(SumInt([i \in DOMAIN recs |->
                              IF i \in kept THEN recs[i].avgTemp ELSE 0],
                          1, Len(recs))),
                 R(Cardinality(kept)))
        ELSE R(0)

\* means.set(month, temps.length > 0 ? sum / temps.length : 0) for the
\* temperatures of the records of month in the years bStart..bEnd
BaselineMonthMean(recs, bStart, bEnd, month) ==
    LET kept == {i \in DOMAIN recs :
                    /\ YearOf(recs[i].date) >= bStart
                    /\ YearOf(recs[i].date) <= bEnd
                    /\ MonthOf(recs[i].date) = month}
    IN  IF Cardinality(kept) > 0
        THEN Div(R(SumInt([i \in DOMAIN recs |->
                              IF i \in kept THEN recs[i].avgTemp ELSE 0],
                          1, Len(recs))),
                 R(Cardinality(kept)))
        ELSE R(0)

\* the Map<number, number> of the months 1..12, set in this order
BaselineMonthlyMeansIn(recs, bStart, bEnd) ==
    [keys |-> [m \in 1..12 |-> m],
     get  |-> Tabulated([m \in 1..12 |-> BaselineMonthMean(recs, bStart, bEnd, m)])]

calcBaselineMonthlyMeans(recs, startYear, endYear) ==
    BaselineMonthlyMeansIn(recs, OrElse(startYear, BASELINE_START),
                           OrElse(endYear, BASELINE_END))

\* means.set(mmdd, sum / temps.length) for every "MM-DD" of dailyData
DailyMeansOf(dailyData) ==
    [keys |-> dailyData.keys,
     get  |-> Tabulated([mmdd \in DOMAIN dailyData.get |-> MeanInt(dailyData.get[mmdd])])]

\* dailyData holds the records of the reference period under r.date.slice(5)
DailyMeansOfBaseline(baselineRecords) ==
    DailyMeansOf(GroupTemps(baselineRecords,
                            [i \in DOMAIN baselineRecords |->
                                baselineRecords[i].date % 10000]))

calcBaselineDailyMeans(recs) ==
    DailyMeansOfBaseline(SelectSeq(recs, LAMBDA r : InBaseline(YearOf(r.date))))

\* temps.length < 300: the year is skipped
MinDaysPerYear == 300

TooFewDaysOrJustEnough(temps) == Len(temps) <= MinDaysPerYear

TooFewDays(temps) == Len(temps) < MinDaysPerYear

AnnualKeyOrderAsInserted(yearlyData) == yearlyData.keys

\* the keys the forEach of calcAnnualAnomalies visits, in its order
AnnualKeyOrder(yearlyData) == SortAscending(yearlyData.keys)

\* sortedYears.forEach: an entry for every year that is not skipped
AnnualEntries(yearlyData, sortedYears, baselineMean) ==
    LET kept == SelectSeq(sortedYears, LAMBDA y : ~TooFewDays(yearlyData.get[y]))
    IN  Tabulated([i \in DOMAIN kept |->
            [year |-> kept[i],
             anomaly |-> Sub(MeanInt(yearlyData.get[kept[i]]), baselineMean),
             avgTemp |-> MeanInt(yearlyData.get[kept[i]])]])

AnnualAnomaliesOf(yearlyData, baselineMean) ==
    AnnualEntries(yearlyData, AnnualKeyOrder(yearlyData), baselineMean)

calcAnnualAnomalies(recs) ==
    AnnualAnomaliesOf(GroupTemps(recs, [i \in DOMAIN recs |-> YearOf(recs[i].date)]),
                      calcBaselineAnnualMean(recs))

\* temps.length < 20: the month is skipped
TooFewDaysInMonth(temps) == Len(temps) < 20

\* monthlyData.forEach: an entry for every month that is not skipped, in
\* the order in which the months are first seen
MonthlyEntries(monthlyData, baselineMonthly) ==
    LET kept == SelectSeq(monthlyData.keys,
                          LAMBDA key : ~TooFewDaysInMonth(monthlyData.get[key]))
    IN  Tabulated([i \in DOMAIN kept |->
            [year |-> kept[i] \div 100,
             month |-> kept[i] % 100,
             anomaly |-> Sub(MeanInt(monthlyData.get[kept[i]]),
                             OrZero(baselineMonthly.get[kept[i] % 100])),
             avgTemp |-> MeanInt(monthlyData.get[kept[i]])]])

MonthlyOrderAsPushed(anomalies) == anomalies

\* anomalies.sort((a, b) => a.year - b.year || a.month - b.month): no two
\* entries have the same year and month
MonthlyOrder(anomalies) ==
    LET at == SortedBy(DOMAIN anomalies,
                       [i \in DOMAIN anomalies |->
                           anomalies[i].year * 100 + anomalies[i].month])
    IN  Tabulated([k \in DOMAIN at |-> anomalies[at[k]]])

calcMonthlyAnomalies(recs) ==
    MonthlyOrder(MonthlyEntries(
        GroupTemps(recs, [i \in DOMAIN recs |-> MonthKey(recs[i].date)]),
        calcBaselineMonthlyMeans(recs, Undefined, Undefined)))

HalfWindowRoundedUp(window) == (window + 1) \div 2

\* Math.floor(window / 2)
HalfWindow(window) == window \div 2

\* the average over the full window, the points outside the series taken as 0
AverageAroundPadded(values, n, half, i) ==
    LET start == IF i - half > 0 THEN i - half ELSE 0
        end == IF i + half < n - 1 THEN i + half ELSE n - 1
    IN  Div(SumNum(values, start + 1, end + 1), R(2 * half + 1))

\* result[i] for the index i (from 0) of a series of n values
AverageAround(values, n, half, i) ==
    LET start == IF i - half > 0 THEN i - half ELSE 0
        end == IF i + half < n - 1 THEN i + half ELSE n - 1
    IN  Div(SumNum(values, start + 1, end + 1), R(end - start + 1))

\* for (let i = 0; i < data.length; i++), one result per index
movingAverage(series, window) ==
    Tabulated([k \in DOMAIN series |->
        [year |-> series[k].year,
         value |-> AverageAround([j \in DOMAIN series |-> series[j].value],
                                 Len(series), HalfWindow(window), k - 1)]])

\* the days from 1970-01-01 to the first day of year y
DaysToYear(y) ==
    365 * (y - 1970)
        + ((y - 1) \div 4 - (y - 1) \div 100 + (y - 1) \div 400)
        - (1969 \div 4 - 1969 \div 100 + 1969 \div 400)

\* the days from 1970-01-01 to the date
DaysToDate(date) ==
    DaysToYear(YearOf(date)) + CommonYearDays[MonthOf(date)]
        + (IF IsLeapYear(YearOf(date)) /\ MonthOf(date) > 2 THEN 1 ELSE 0)
        + (date % 100) - 1

\* new Date(r.date).getTime() for a date "YYYY-MM-DD": the date-only form is
\* read as midnight UTC.  Times are counted in minutes, of which a day has
\* 1440: every time here is a whole number of minutes.
UtcMidnight(date) == DaysToDate(date) * 1440

\* new Date(year, 0, 1).getTime(): midnight of January 1 in the time zone
\* the code runs in, which is zone minutes ahead of UTC on that day
LocalMidnight(year, zone) == DaysToYear(year) * 1440 - zone

\* Math.floor((date.getTime() - startOfYear.getTime()) / (24 * 60 * 60 * 1000)) + 1
DayOfYear(date, zone) ==
    (UtcMidnight(date) - LocalMidnight(YearOf(date), zone)) \div 1440 + 1

\* grouped.get(year) after  days.sort((a, b) => a.dayOfYear - b.dayOfYear):
\* the entries pushed at the positions own, by dayOfYear, those with the same
\* dayOfYear in the order pushed
SortedDays(days, own) ==
    LET at == SortedBy(own,
                       [i \in own |->
                           Cardinality({j \in own :
                               \/ days[j].dayOfYear < days[i].dayOfYear
                               \/ days[j].dayOfYear = days[i].dayOfYear /\ j < i})])
    IN  Tabulated([k \in DOMAIN at |-> days[at[k]]])

\* the map grouped: its keys in the order they were set, and its arrays
GroupsOfDays(recs, days, years) ==
    [keys |-> SortedBy(years,
                       [y \in years |->
                           -MaxOf({-i : i \in {j \in DOMAIN recs : YearOf(recs[j].date) = y}})]),
     get  |-> Tabulated([y \in years |->
                  SortedDays(days, {i \in DOMAIN recs : YearOf(recs[i].date) = y})])]

groupByYear(recs, zone) ==
    GroupsOfDays(recs,
                 Tabulated([i \in DOMAIN recs |->
                     [dayOfYear |-> DayOfYear(recs[i].date, zone),
                      avgTemp |-> recs[i].avgTemp,
                      date |-> recs[i].date]]),
                 {YearOf(recs[i].date) : i \in DOMAIN recs})

\* (n * sumXY - sumX * sumY) / (n * sumXX - sumX * sumX)
Slope(n, sumX, sumY, sumXY, sumXX) ==
    Div(Sub(Mul(R(n), sumXY), Mul(sumX, sumY)),
        Sub(Mul(R(n), sumXX), Mul(sumX, sumX)))

\* (sumY - slope * sumX) / n
Intercept(n, sumX, sumY, slope) == Div(Sub(sumY, Mul(slope, sumX)), R(n))

\* ys[i] - (slope * xs[i] + intercept), for every i
Residuals(xs, ys, slope, intercept) ==
    Tabulated([i \in DOMAIN xs |-> Sub(ys[i], Add(Mul(slope, R(xs[i])), intercept))])

\* the sum of (vals[i] - centre) ** 2
SumSquaresAround(vals, centre) ==
    SumNum([i \in DOMAIN vals |-> Square(Sub(vals[i], centre))], 1, Len(vals))

\* the sum of vals[i] ** 2
SumSquares(vals) == SumNum([i \in DOMAIN vals |-> Square(vals[i])], 1, Len(vals))

\* the share of the residuals instead of the share they leave
ResidualShare(ssTot, ssRes) == IF ssTot = R(0) THEN R(0) ELSE Div(ssRes, ssTot)

\* ssTot === 0 ? 0 : 1 - ssRes / ssTot
RSquared(ssTot, ssRes) == IF ssTot = R(0) THEN R(0) ELSE Sub(R(1), Div(ssRes, ssTot))

RegressionLine(xs, ys, n, sumY, slope, intercept) ==
    [slope |-> slope,
     intercept |-> intercept,
     rSquared |-> RSquared(SumSquaresAround(ys, Div(sumY, R(n))),
                           SumSquares(Residuals(xs, ys, slope, intercept)))]

RegressionOfSums(xs, ys, n, sumX, sumY, slope) ==
    RegressionLine(xs, ys, n, sumY, slope, Intercept(n, sumX, sumY, slope))

linearRegression(xs, ys) ==
    LET n == Len(xs)
        sumX == SumNum([i \in DOMAIN xs |-> R(xs[i])], 1, n)
        sumY == SumNum(ys, 1, n)
        sumXY == SumNum([i \in DOMAIN xs |-> Mul(R(xs[i]), ys[i])], 1, n)
        sumXX == SumNum([i \in DOMAIN xs |-> Mul(R(xs[i]), R(xs[i]))], 1, n)
    IN  RegressionOfSums(xs, ys, n, sumX, sumY, Slope(n, sumX, sumY, sumXY, sumXX))

ForecastYearsFromLast(xs, yearsAhead) ==
    IF Len(xs) = 0 THEN <<>>
    ELSE Tabulated([k \in 1..yearsAhead |-> xs[Len(xs)] + k - 1])

\* the years y of  for (let y = lastYear + 1; y <= lastYear + yearsAhead; y++),
\* where lastYear = xs[xs.length - 1] is undefined for an empty xs: the
\* comparison NaN <= NaN is false and the loop body never runs
ForecastYears(xs, yearsAhead) ==
    IF Len(xs) = 0 THEN <<>>
    ELSE Tabulated([k \in 1..yearsAhead |-> xs[Len(xs)] + k])

\* the half-width of an interval for the mean, without the leading 1 for the
\* scatter of a single year
MarginOfMean(se, n, y, xMean, sxx) ==
    Mul(Mul(Frac(196, 100), se),
        MathSqrt(Add(Div(R(1), R(n)),
                     Div(Square(Sub(R(y), xMean)), sxx))))

\* tCrit * se * Math.sqrt(1 + 1 / n + (y - xMean) ** 2 / sxx), tCrit = 1.96
Margin(se, n, y, xMean, sxx) ==
    Mul(Mul(Frac(196, 100), se),
        MathSqrt(Add(Add(R(1), Div(R(1), R(n))),
                     Div(Square(Sub(R(y), xMean)), sxx))))

\* the body of the loop for the year y
ForecastPoint(y, pred, margin) ==
    [year |-> y, value |-> pred, lower |-> Sub(pred, margin), upper |-> Add(pred, margin)]

ForecastPoints(years, reg, se, n, xMean, sxx) ==
    Tabulated([k \in DOMAIN years |->
        ForecastPoint(years[k],
                      Add(Mul(reg.slope, R(years[k])), reg.intercept),
                      Margin(se, n, years[k], xMean, sxx))])

ForecastOfLine(anomalies, xs, ys, reg, xMean, yearsAhead) ==
    [historical |-> anomalies,
     forecast |-> ForecastPoints(
                      ForecastYears(xs, yearsAhead), reg,
                      MathSqrt(Div(SumSquares(Residuals(xs, ys, reg.slope, reg.intercept)),
                                   R(Len(xs) - 2))),
                      Len(xs), xMean,
                      SumSquaresAround([i \in DOMAIN xs |-> R(xs[i])], xMean)),
     slope |-> reg.slope,
     intercept |-> reg.intercept,
     rSquared |-> reg.rSquared,
     slopePerDecade |-> Mul(reg.slope, R(10))]

ForecastOfSeries(anomalies, xs, ys, yearsAhead) ==
    ForecastOfLine(anomalies, xs, ys, linearRegression(xs, ys),
                   MeanNum([i \in DOMAIN xs |-> R(xs[i])]), yearsAhead)

ForecastOfAnomalies(anomalies, yearsAhead) ==
    ForecastOfSeries(anomalies,
                     Tabulated([i \in DOMAIN anomalies |-> anomalies[i].year]),
                     Tabulated([i \in DOMAIN anomalies |-> anomalies[i].anomaly]),
                     yearsAhead)

calcForecast(recs, yearsAhead) == ForecastOfAnomalies(calcAnnualAnomalies(recs), yearsAhead)

ReachesThreshold(z, threshold) == ~Gt(threshold, MathAbs(z))

\* Math.abs(z) > threshold
ExceedsThreshold(z, threshold) == Gt(MathAbs(z), threshold)

\* std === 0 ? 0 : (d.anomaly - mean) / std
ZScore(anomaly, mean, std) == IF std = R(0) THEN R(0) ELSE Div(Sub(anomaly, mean), std)

\* the flag of the annual anomaly d with the z-score z
AnomalyFlag(d, z, threshold) ==
    [year |-> d.year, anomaly |-> d.anomaly, avgTemp |-> d.avgTemp,
     zScore |-> z, isAnomaly |-> ExceedsThreshold(z, threshold)]

FlagsOf(anomalies, mean, std, threshold) ==
    [flags |-> Tabulated([i \in DOMAIN anomalies |->
                   AnomalyFlag(anomalies[i], ZScore(anomalies[i].anomaly, mean, std),
                               threshold)]),
     mean |-> mean, std |-> std, threshold |-> threshold]

FlagsAround(anomalies, values, mean, threshold) ==
    FlagsOf(anomalies, mean,
            MathSqrt(Div(SumSquaresAround(values, mean), R(Len(values)))),
            threshold)

FlagsOfAnomalies(anomalies, values, threshold) ==
    FlagsAround(anomalies, values, MeanNum(values), threshold)

DetectIn(anomalies, threshold) ==
    FlagsOfAnomalies(anomalies,
                     Tabulated([i \in DOMAIN anomalies |-> anomalies[i].anomaly]),
                     threshold)

detectAnomalies(recs, threshold) == DetectIn(calcAnnualAnomalies(recs), threshold)

\* temps.length < 20: the month is skipped
MinDaysPerMonth == 20

\* for (const key of sortedKeys): a point for every month that is not skipped
SeriesOfMonths(monthlyMap, sortedKeys) ==
    LET kept == SelectSeq(sortedKeys,
                          LAMBDA key : ~(Len(monthlyMap.get[key]) < MinDaysPerMonth))
    IN  Tabulated([i \in DOMAIN kept |->
            [year |-> kept[i] \div 100,
             month |-> kept[i] % 100,
             value |-> MeanInt(monthlyMap.get[kept[i]])]])

SeriesOfMap(monthlyMap) == SeriesOfMonths(monthlyMap, SortAscending(monthlyMap.keys))

\* the monthly series of decomposeSeasonality: the months with enough
\* records, in the order of the sorted "YYYY-MM" keys
MonthlySeries(recs) ==
    SeriesOfMap(GroupTemps(recs, [i \in DOMAIN recs |-> MonthKey(recs[i].date)]))

\* what a call yields when it throws a TypeError instead of returning
TypeError == [threw |-> "TypeError"]

\* the indices i (from 0) of  for (let i = 6; i < series.length - 5; i++)
TrendLoop(len) == 6..(len - 5 - 1)

\* series[i - 6] .. series[i + 6] are read at every index of the loop;
\* series[j] for j >= series.length is undefined, and undefined.value throws
TrendLoopThrows(len) == \E i \in TrendLoop(len) : i + 6 > len - 1

\* the indices i (from 0) at which the loop body ends with trend[i] = sum / 12
TrendAssigned(len) == {i \in TrendLoop(len) : i + 6 <= len - 1}

\* trend[i] of the loop body, for an index i (from 0) with its window inside
TrendAt(x, i) ==
    Div(Add(Add(Mul(x[i - 6 + 1], Frac(1, 2)),
                SumNum(x, i - 5 + 1, i + 5 + 1)),
            Mul(x[i + 6 + 1], Frac(1, 2))),
        R(12))

\* the trend array after the loop: null outside the loop's indices
TrendOf(x) ==
    Tabulated([k \in DOMAIN x |->
        IF k - 1 \in TrendLoop(Len(x)) THEN TrendAt(x, k - 1) ELSE Null])

\* seasonalByMonth.get(m): series[i].value - trend[i] where trend[i] !== null
Detrended(series, trend, m) ==
    LET at == SelectSeq([k \in DOMAIN series |-> k],
                        LAMBDA k : trend[k] # Null /\ series[k].month = m)
    IN  Tabulated([j \in DOMAIN at |-> Sub(series[at[j]].value, trend[at[j]])])

\* vals.length > 0 ? vals.reduce((a, b) => a + b, 0) / vals.length : 0
SeasonalMean(vals) == IF Len(vals) > 0 THEN MeanNum(vals) ELSE R(0)

SeasonalIndex(series, trend) ==
    Tabulated([m \in 1..12 |-> SeasonalMean(Detrended(series, trend, m))])

\* one point of series.map((s, i) => ...)
DecompositionPoint(s, trend, seasonal) ==
    [year |-> s.year,
     month |-> s.month,
     observed |-> s.value,
     trend |-> trend,
     seasonal |-> seasonal,
     residual |-> IF trend # Null THEN Sub(Sub(s.value, trend), seasonal) ELSE Null]

PointsOf(series, trend, seasonalIndex) ==
    Tabulated([k \in DOMAIN series |->
        DecompositionPoint(series[k], trend[k], OrZero(seasonalIndex[series[k].month]))])

DecompositionOfTrend(series, trend) ==
    [points |-> PointsOf(series, trend, SeasonalIndex(series, trend))]

DecompositionOf(series) ==
    IF TrendLoopThrows(Len(series)) THEN TypeError
    ELSE DecompositionOfTrend(series,
                              TrendOf(Tabulated([j \in DOMAIN series |-> series[j].value])))

decomposeSeasonality(recs) == DecompositionOf(MonthlySeries(recs))

\* const decadeStarts = [1960, 1970, 1980, 1990, 2000, 2010, 2020]
decadeStarts == <<1960, 1970, 1980, 1990, 2000, 2010, 2020>>

\* yt && yt.length >= 300, for yt = yearlyData.get(y)
HasEnoughDays(yearlyData, have, y) ==
    IF y \in have THEN Len(yearlyData.get[y]) >= 300 ELSE FALSE

\* one mean over all the days of the years of the decade that have enough days
DecadeTempsOfAllDays(yearlyData, have, start) ==
    LET ys == SelectSeq([k \in 1..10 |-> start + k - 1],
                        LAMBDA y : HasEnoughDays(yearlyData, have, y))
    IN  IF Len(ys) = 0 THEN <<>>
        ELSE <<MeanInt(Flatten([i \in DOMAIN ys |-> yearlyData.get[ys[i]]], 1, Len(ys)))>>

\* temps of  for (let y = start; y <= end; y++): the mean of every year of
\* the decade that has enough days
DecadeTemps(yearlyData, have, start) ==
    LET ys == SelectSeq([k \in 1..10 |-> start + k - 1],
                        LAMBDA y : HasEnoughDays(yearlyData, have, y))
    IN  Tabulated([i \in DOMAIN ys |-> MeanInt(yearlyData.get[ys[i]])])

\* decades.push(...) for every decade with temps.length > 0
DecadeEntries(temps) ==
    LET kept == SelectSeq([j \in DOMAIN decadeStarts |-> j], LAMBDA j : Len(temps[j]) > 0)
    IN  Tabulated([i \in DOMAIN kept |->
            [decade |-> ToString(decadeStarts[kept[i]]) \o "s",
             startYear |-> decadeStarts[kept[i]],
             endYear |-> decadeStarts[kept[i]] + 9,
             avgTemp |-> MeanNum(temps[kept[i]]),
             diffFromFirst |-> R(0)]])

\* the difference taken from the last decade instead
WithDiffFromLast(decades) ==
    Tabulated([i \in DOMAIN decades |->
        [decades[i] EXCEPT !.diffFromFirst =
            Sub(decades[i].avgTemp, decades[Len(decades)].avgTemp)]])

\* d.diffFromFirst = d.avgTemp - decades[0].avgTemp, if there is a decade
WithDiffFromFirst(decades) ==
    IF Len(decades) > 0
    THEN Tabulated([i \in DOMAIN decades |->
             [decades[i] EXCEPT !.diffFromFirst = Sub(decades[i].avgTemp, decades[1].avgTemp)]])
    ELSE decades

DecadesOfYears(yearlyData, have) ==
    WithDiffFromFirst(DecadeEntries(
        Tabulated([j \in DOMAIN decadeStarts |->
                      DecadeTemps(yearlyData, have, decadeStarts[j])])))

DecadesOfMap(yearlyData) ==
    DecadesOfYears(yearlyData, {yearlyData.keys[i] : i \in DOMAIN yearlyData.keys})

calcDecadeStats(recs) ==
    DecadesOfMap(GroupTemps(recs, [i \in DOMAIN recs |-> YearOf(recs[i].date)]))

\* a later record that is as hot as the hottest so far replaces it
HigherOrEqualOf(allTimeHigh, r) ==
    IF r.value >= allTimeHigh.value THEN r ELSE allTimeHigh

\* if (r.maxTemp > allTimeHigh.value) allTimeHigh = { value: r.maxTemp, date: r.date }
HigherOf(allTimeHigh, r) ==
    IF r.value > allTimeHigh.value THEN r ELSE allTimeHigh

\* if (r.minTemp < allTimeLow.value) allTimeLow = { value: r.minTemp, date: r.date }
LowerOf(allTimeLow, r) ==
    IF r.value < allTimeLow.value THEN r ELSE allTimeLow

\* allTimeHigh after the forEach has passed the records lo..hi.  The step
\* keeps the earlier of two records unless the later is strictly hotter,
\* which gives the same record however the steps are grouped; they are
\* grouped here in halves, which keeps the evaluation shallow.
RECURSIVE HighestIn(_, _, _)
HighestIn(recs, lo, hi) ==
    IF lo = hi THEN [value |-> recs[lo].maxTemp, date |-> recs[lo].date]
    ELSE LET mid == (lo + hi) \div 2
         IN  HigherOf(HighestIn(recs, lo, mid), HighestIn(recs, mid + 1, hi))

\* allTimeLow after the forEach has passed the records lo..hi
RECURSIVE LowestIn(_, _, _)
LowestIn(recs, lo, hi) ==
    IF lo = hi THEN [value |-> recs[lo].minTemp, date |-> recs[lo].date]
    ELSE LET mid == (lo + hi) \div 2
         IN  LowerOf(LowestIn(recs, lo, mid), LowestIn(recs, mid + 1, hi))

\* the hottest day: { value: -Infinity, date: '' } for no records, as every
\* maxTemp is above -Infinity the first record always replaces it
AllTimeHigh(recs) ==
    IF Len(recs) = 0 THEN [value |-> Num(QInf(-1)), date |-> ""]
    ELSE [value |-> R(HighestIn(recs, 1, Len(recs)).value),
          date |-> HighestIn(recs, 1, Len(recs)).date]

\* the coldest day, likewise from { value: Infinity, date: '' }
AllTimeLow(recs) ==
    IF Len(recs) = 0 THEN [value |-> Num(QInf(1)), date |-> ""]
    ELSE [value |-> R(LowestIn(recs, 1, Len(recs)).value),
          date |-> LowestIn(recs, 1, Len(recs)).date]

\* the mean avgTemp of the records of the years lo..hi, 0 if there is none
DecadeAvg(recs, lo, hi) ==
    LET kept == {i \in DOMAIN recs :
                    lo <= YearOf(recs[i].date) /\ YearOf(recs[i].date) <= hi}
    IN  IF kept = {} THEN R(0)
        ELSE Div(R(SumInt([i \in DOMAIN recs |->
                              IF i \in kept THEN recs[i].avgTemp ELSE 0],
                          1, Len(recs))),
                 R(Cardinality(kept)))

\* Array.from(map.entries()).map(([year, count]) => ({ year, count }))
\* .sort((a, b) => a.year - b.year), for the map that counts per year the
\* records at the positions hot
CountsPerYear(recs, hot) ==
    LET years == {YearOf(recs[i].date) : i \in hot}
        sorted == SortedBy(years, [y \in years |-> y])
    IN  Tabulated([k \in DOMAIN sorted |->
            [year |-> sorted[k],
             count |-> Cardinality({i \in hot : YearOf(recs[i].date) = sorted[k]})]])

\* the heatwave days counted from above 33 only
CityStatsOfHotterDays(recs, firstDecadeAvg, recentDecadeAvg) ==
    [allTimeHigh |-> AllTimeHigh(recs),
     allTimeLow |-> AllTimeLow(recs),
     recentDecadeAvg |-> recentDecadeAvg,
     firstDecadeAvg |-> firstDecadeAvg,
     tempChange |-> Sub(recentDecadeAvg, firstDecadeAvg),
     tropicalNights |-> CountsPerYear(recs, {i \in DOMAIN recs : recs[i].minTemp >= 25}),
     heatwaveDays |-> CountsPerYear(recs, {i \in DOMAIN recs : recs[i].maxTemp > 33})]

CityStatsOf(recs, firstDecadeAvg, recentDecadeAvg) ==
    [allTimeHigh |-> AllTimeHigh(recs),
     allTimeLow |-> AllTimeLow(recs),
     recentDecadeAvg |-> recentDecadeAvg,
     firstDecadeAvg |-> firstDecadeAvg,
     tempChange |-> Sub(recentDecadeAvg, firstDecadeAvg),
     tropicalNights |-> CountsPerYear(recs, {i \in DOMAIN recs : recs[i].minTemp >= 25}),
     heatwaveDays |-> CountsPerYear(recs, {i \in DOMAIN recs : recs[i].maxTemp >= 33})]

\* minYear and maxYear are Infinity and -Infinity for no records: both
\* filters keep nothing then, and both averages are 0
CityStatsOfYears(recs, years) ==
    IF years = {} THEN CityStatsOf(recs, R(0), R(0))
    ELSE CityStatsOf(recs,
                     DecadeAvg(recs, -MaxOf({-y : y \in years}), -MaxOf({-y : y \in years}) + 9),
                     DecadeAvg(recs, MaxOf(years) - 9, MaxOf(years)))

calcCityStats(recs) == CityStatsOfYears(recs, {YearOf(recs[i].date) : i \in DOMAIN recs})

\* list.slice(-5)
LastFive(list) == SubSeq(list, IF Len(list) > 5 THEN Len(list) - 4 ELSE 1, Len(list))

\* list.slice(0, 5)
FirstFive(list) == SubSeq(list, 1, IF Len(list) > 5 THEN 5 ELSE Len(list))

\* entries.length > 0 ? entries.reduce((s, d) => s + d.count, 0) / entries.length : 0
AverageCount(entries) ==
    IF Len(entries) > 0
    THEN Div(R(SumInt([k \in DOMAIN entries |-> entries[k].count], 1, Len(entries))),
             R(Len(entries)))
    ELSE R(0)

\* the four averages StatsPanel shows
StatsPanelAverages(stats) ==
    [avgRecentTropical |-> AverageCount(LastFive(stats.tropicalNights)),
     avgRecentHeatwave |-> AverageCount(LastFive(stats.heatwaveDays)),
     avgEarlyTropical |-> AverageCount(FirstFive(stats.tropicalNights)),
     avgEarlyHeatwave |-> AverageCount(FirstFive(stats.heatwaveDays))]

\* if (records.length === 0) return null; if (!stats) return null
StatsPanel(recs) ==
    IF Len(recs) = 0 THEN Null ELSE StatsPanelAverages(calcCityStats(recs))

---------------------------------------------------------------------------
(***************************************************************************)
(* Ingestion: src/scripts/fetch-kma-data.ts (the API) and the CSV          *)
(* conversion in src/scripts/generate-demo-data.ts.  A row is an API item  *)
(* or a CSV line after the header, split into its columns:                 *)
(* [cols, tm, avgTa, minTa, maxTa] with cols the number of columns of the  *)
(* line, tm the date (an integer YYYYMMDD, 0 for the empty string) and the *)
(* three temperatures as texts, sequences of characters.                   *)
(***************************************************************************)
Digits == <<"0", "1", "2", "3", "4", "5", "6", "7", "8", "9">>

IsDigit(c) == \E d \in DOMAIN Digits : Digits[d] = c

DigitValue(c) == (CHOOSE d \in DOMAIN Digits : Digits[d] = c) - 1

\* the length of the longest prefix of text that consists of digits
RECURSIVE DigitsAhead(_)
DigitsAhead(text) ==
    IF text = <<>> THEN 0
    ELSE IF IsDigit(Head(text)) THEN 1 + DigitsAhead(Tail(text))
    ELSE 0

\* the number written by a sequence of digits
RECURSIVE WholeNumber(_)
WholeNumber(digits) ==
    IF digits = <<>> THEN 0
    ELSE 10 * WholeNumber(SubSeq(digits, 1, Len(digits) - 1))
         + DigitValue(digits[Len(digits)])

RECURSIVE PowerOfTen(_)
PowerOfTen(k) == IF k = 0 THEN 1 ELSE 10 * PowerOfTen(k - 1)

\* parseFloat of a text without a sign: digits, then "." and digits if
\* there are any; what follows is ignored, and NaN without a digit
ParseUnsigned(text) ==
    LET w == DigitsAhead(text)
        rest == SubSeq(text, w + 1, Len(text))
        f == IF rest # <<>> /\ Head(rest) = "." THEN DigitsAhead(Tail(rest)) ELSE 0
    IN  IF w + f = 0 THEN NaN
        ELSE Frac(WholeNumber(SubSeq(text, 1, w)) * PowerOfTen(f)
                      + WholeNumber(SubSeq(rest, 2, f + 1)),
                  PowerOfTen(f))

\* parseFloat(text) for a trimmed column
parseFloat(text) ==
    IF text = <<>> THEN NaN
    ELSE IF Head(text) = "-" THEN Neg(ParseUnsigned(Tail(text)))
    ELSE IF Head(text) = "+" THEN ParseUnsigned(Tail(text))
    ELSE ParseUnsigned(text)

\* the record pushed for a row
RawRecord(row) ==
    [date |-> row.tm,
     avgTemp |-> parseFloat(row.avgTa),
     minTemp |-> parseFloat(row.minTa),
     maxTemp |-> parseFloat(row.maxTa)]

\* isNaN(avgTemp) || isNaN(minTemp) || isNaN(maxTemp)
HasMissingValue(r) == IsNaN(r.avgTemp) \/ IsNaN(r.minTemp) \/ IsNaN(r.maxTemp)

\* date.length of a "YYYY-MM-DD" date, and of the empty string
DateLength(tm) == IF tm = 0 THEN 0 ELSE 10

\* records.sort((a, b) => a.date.localeCompare(b.date)): ascending by date,
\* records of the same date in the order they had (the sort is stable)
SortedByDate(recs) ==
    LET at == SortedBy(DOMAIN recs,
                       [i \in DOMAIN recs |->
                           Cardinality({j \in DOMAIN recs :
                               \/ recs[j].date < recs[i].date
                               \/ recs[j].date = recs[i].date /\ j < i})])
    IN  Tabulated([k \in DOMAIN at |-> recs[at[k]]])

\* what a run leaves for a city: the JSON file with its records, or no file
Written(recs) == [written |-> TRUE, records |-> recs]

NotWritten == [written |-> FALSE, records |-> <<>>]

\* if (records.length === 0) the file is skipped, else it is written
WriteUnlessEmpty(recs) == IF Len(recs) = 0 THEN NotWritten ELSE Written(recs)

\* fetchCityData: every item of every page received is pushed unless one of
\* its temperatures is NaN, and the list is sorted at the end
fetchCityData(items) ==
    SortedByDate(SelectSeq([i \in DOMAIN items |-> RawRecord(items[i])],
                           LAMBDA r : ~HasMissingValue(r)))

\* the lines parseCSV skips: too few columns, a missing temperature, a
\* date shorter than 8 characters
CsvLineSkipped(row) ==
    \/ row.cols < 6
    \/ HasMissingValue(RawRecord(row))
    \/ DateLength(row.tm) < 8

\* what an exception leaves of a call
Error == [threw |-> "Error"]

\* parseCSV for the lines after the header: an Error without any
parseCSV(lines) ==
    IF Len(lines) < 1 THEN Error
    ELSE LET kept == SelectSeq(lines, LAMBDA row : ~CsvLineSkipped(row))
         IN  [records |-> [i \in DOMAIN kept |-> RawRecord(kept[i])]]

\* processFile: parseCSV, then the sort and the file
processFile(lines) ==
    IF parseCSV(lines) = Error THEN Error
    ELSE WriteUnlessEmpty(SortedByDate(parseCSV(lines).records))

---------------------------------------------------------------------------
(***************************************************************************)
(* The inputs and the state machine.                                       *)
(***************************************************************************)
\* the years a station file may hold: the year after the reference period
\* and the NumYears - 1 years before it
NumYears == 3

YearChoices == {BASELINE_END + 2 - i : i \in 1..NumYears}

\* the years around both ends of the reference period
EdgeYears == {BASELINE_START - 1, BASELINE_START, BASELINE_END, BASELINE_END + 1}

\* what one year of a station file may hold, as segments of n days at t
YearShapes ==
    { <<[n |-> 299, t |-> 10]>>,
      <<[n |-> 300, t |-> 10]>>,
      <<[n |-> 150, t |-> 10], [n |-> 150, t |-> 14]>> }

\* what a year around the reference period may hold
EdgeShapes ==
    { <<[n |-> 299, t |-> 10]>>,
      <<[n |-> 300, t |-> 12]>>,
      <<[n |-> 150, t |-> 10], [n |-> 150, t |-> 14]>> }

\* the horizons calcForecast is called with: 0..MaxYearsAhead
MaxYearsAhead == 2

\* the thresholds detectAnomalies is called with
ThresholdChoices == {R(0), R(1), R(2)}

\* the series movingAverage is called with: up to MaxData points, with
\* values of ValueChoices, and windows 1..MaxWindow
MaxData == 4
MaxWindow == 4
ValueChoices == {R(0), R(1), Frac(-5, 2)}

NoResult == [op |-> "none", arg |-> 0, threw |-> "none", value |-> <<>>]

Returned(op, arg, value) == [op |-> op, arg |-> arg, threw |-> "none", value |-> value]

Threw(op, arg, error) == [op |-> op, arg |-> arg, threw |-> error.threw, value |-> <<>>]

\* what a call leaves: its value, or the error it threw
Outcome(op, arg, r) == IF r = TypeError THEN Threw(op, arg, r) ELSE Returned(op, arg, r)

\* the calendar year the code runs in: new Date().getFullYear()
CurrentYear == 2026

\* the Home page once mounted: useState('seoul'), useState([]),
\* useState(true), and the effect has started the load of the city's file.
\* records names the city whose file the records state holds ("none" for
\* the initial []), loads the files asked for and not yet answered, in the
\* order asked; selections and errors count the clicks on another city and
\* the loads that failed.
HomeMounted ==
    [selectedCity |-> "seoul", records |-> "none", loading |-> TRUE,
     loads |-> <<"seoul">>, selections |-> 0, errors |-> 0]

\* the HexMap once mounted: useState(true), useState(''), useState(false),
\* and the effect has asked for the file of every city; arrived holds the
\* cities whose file has arrived, failed those whose file has failed
HexMapMounted ==
    [loading |-> TRUE, period |-> "", playing |-> FALSE,
     arrived |-> {}, failed |-> {}]

\* { id: 'seoul', name: '서울', stationId: 108, startYear: 1961 }
StartYear == 1961

\* const CHUNK_YEARS = 3
CHUNK_YEARS == 3

\* the pages of a chunk are told apart up to MaxPage, a page holds up to
\* MaxItems items and reports a totalCount up to MaxTotal
MaxPage == 3
MaxItems == 2
MaxTotal == 3

\* let totalCount = Infinity: above every count there is
Infinity == MaxTotal + MaxItems + 1

\* fetchCityData at the start of its first chunk: year = city.startYear,
\* pageNo = 1, fetched = 0, totalCount = Infinity
PagingStarted ==
    [year |-> StartYear, pageNo |-> 1, fetched |-> 0,
     totalCount |-> Infinity, done |-> FALSE]

\* no earlier result is held
Nothing == [op |-> "none"]

Init ==
    /\ records = <<>>
    /\ result = NoResult
    /\ data = <<>>
    /\ held = Nothing
    /\ home = HomeMounted
    /\ hexMap = HexMapMounted
    /\ paging = PagingStarted

\* the records are in the order of their dates
Chronological(recs) ==
    {i \in 1..(Len(recs) - 1) : recs[i].date >= recs[i + 1].date} = {}

\* a station file in the order of its dates gains the records of a later year
LoadYear(y, shape) ==
    /\ result.op = NoResult.op
    /\ Chronological(records)
    /\ IF records = <<>> THEN TRUE ELSE YearOf(records[Len(records)].date) < y
    /\ records' = records \o YearRecords(y, shape)
    /\ UNCHANGED <<result, data, held, others>>

\* the same records in the opposite order
ReverseRecords ==
    /\ result.op = NoResult.op
    /\ records # <<>>
    /\ records' = Reversed(records)
    /\ UNCHANGED <<result, data, held, others>>

\* the same records with the first and the last one exchanged
SwapEnds ==
    /\ result.op = NoResult.op
    /\ Len(records) > 1
    /\ records' = [records EXCEPT ![1] = records[Len(records)],
                                  ![Len(records)] = records[1]]
    /\ UNCHANGED <<result, data, held, others>>

CallCalcAnnualAnomalies ==
    /\ result.op = NoResult.op
    /\ result' = Returned("calcAnnualAnomalies", 0, calcAnnualAnomalies(records))
    /\ UNCHANGED <<records, data, held, others>>

CallCalcForecast(yearsAhead) ==
    /\ result.op = NoResult.op
    /\ result' = Returned("calcForecast", yearsAhead, calcForecast(records, yearsAhead))
    /\ UNCHANGED <<records, data, held, others>>

CallDetectAnomalies(threshold) ==
    /\ result.op = NoResult.op
    /\ result' = Returned("detectAnomalies", threshold,
                          detectAnomalies(records, threshold))
    /\ UNCHANGED <<records, data, held, others>>

CallDecomposeSeasonality ==
    /\ result.op = NoResult.op
    /\ result' = Outcome("decomposeSeasonality", 0, decomposeSeasonality(records))
    /\ UNCHANGED <<records, data, held, others>>

\* the caller is done with the result
Discard ==
    /\ result.op # NoResult.op
    /\ result' = NoResult
    /\ UNCHANGED <<records, data, held, others>>

Next ==
    \/ \E y \in YearChoices, shape \in YearShapes : LoadYear(y, shape)
    \/ ReverseRecords
    \/ SwapEnds
    \/ CallCalcAnnualAnomalies
    \/ \E yearsAhead \in 0..MaxYearsAhead : CallCalcForecast(yearsAhead)
    \/ \E threshold \in ThresholdChoices : CallDetectAnomalies(threshold)
    \/ CallDecomposeSeasonality
    \/ Discard

Spec == Init /\ [][Next]_vars

(***************************************************************************)
(* calcAnnualAnomalies on station files that hold the years around both    *)
(* ends of the reference period.                                           *)
(***************************************************************************)
NextEdges ==
    \/ \E y \in EdgeYears, shape \in EdgeShapes : LoadYear(y, shape)
    \/ ReverseRecords
    \/ SwapEnds
    \/ CallCalcAnnualAnomalies
    \/ Discard

SpecEdges == Init /\ [][NextEdges]_vars

(***************************************************************************)
(* movingAverage on a series of its own: the series grows point by point,  *)
(* one year after the other, and is smoothed with every window.            *)
(***************************************************************************)
PushPoint(v) ==
    /\ result.op = NoResult.op
    /\ Len(data) < MaxData
    /\ data' = Append(data, [year |-> 2000 + Len(data), value |-> v])
    /\ UNCHANGED <<records, result, held, others>>

CallMovingAverage(window) ==
    /\ result.op = NoResult.op
    /\ result' = Returned("movingAverage", window, movingAverage(data, window))
    /\ UNCHANGED <<records, data, held, others>>

NextSmooth ==
    \/ \E v \in ValueChoices : PushPoint(v)
    \/ \E window \in 1..MaxWindow : CallMovingAverage(window)
    \/ Discard

SpecSmooth == Init /\ [][NextSmooth]_vars

(***************************************************************************)
(* calcDecadeStats and calcCityStats on station files that hold the last   *)
(* two years of one decade and the first year of the next: a short hot     *)
(* year, a year of just enough days, or a longer year with three hot days  *)
(* (all three with tropical nights, or two of them without), in the order  *)
(* of the dates or in the opposite order.                                  *)
(***************************************************************************)
DecadeYears == {1968, 1969, 1970}

DecadeShapes ==
    { <<[n |-> 299, t |-> 29]>>,
      <<[n |-> 300, t |-> 10]>>,
      <<[n |-> 300, t |-> 13], [n |-> 3, t |-> 29]>>,
      <<[n |-> 300, t |-> 10], [n |-> 2, t |-> 28], [n |-> 1, t |-> 29]>> }

CallCalcDecadeStats ==
    /\ result.op = NoResult.op
    /\ result' = Returned("calcDecadeStats", 0, calcDecadeStats(records))
    /\ UNCHANGED <<records, data, held, others>>

CallCalcCityStats ==
    /\ result.op = NoResult.op
    /\ result' = Returned("calcCityStats", 0, calcCityStats(records))
    /\ UNCHANGED <<records, data, held, others>>

\* StatsPanel is rendered with the records
RenderStatsPanel ==
    /\ result.op = NoResult.op
    /\ result' = Returned("StatsPanel", 0, StatsPanel(records))
    /\ UNCHANGED <<records, data, held, others>>

NextStats ==
    \/ \E y \in DecadeYears, shape \in DecadeShapes : LoadYear(y, shape)
    \/ ReverseRecords
    \/ CallCalcDecadeStats
    \/ CallCalcCityStats
    \/ RenderStatsPanel
    \/ Discard

SpecStats == Init /\ [][NextStats]_vars

(***************************************************************************)
(* The baseline means and calcMonthlyAnomalies on station files that hold  *)
(* the first weeks of each year: January and 19 or 20 days of February.    *)
(***************************************************************************)
MonthShapes ==
    { <<[n |-> 31, t |-> 2], [n |-> 19, t |-> 4]>>,
      <<[n |-> 31, t |-> 2], [n |-> 20, t |-> 4]>>,
      <<[n |-> 31, t |-> 6], [n |-> 20, t |-> 9]>> }

\* the reference periods calcBaselineMonthlyMeans is called with: the
\* default one, and 1991..2020
PeriodChoices ==
    { [startYear |-> Undefined, endYear |-> Undefined],
      [startYear |-> <<1991>>, endYear |-> <<2020>>] }

CallCalcBaselineAnnualMean ==
    /\ result.op = NoResult.op
    /\ result' = Returned("calcBaselineAnnualMean", 0, calcBaselineAnnualMean(records))
    /\ UNCHANGED <<records, data, held, others>>

CallCalcBaselineMonthlyMeans(period) ==
    /\ result.op = NoResult.op
    /\ result' = Returned("calcBaselineMonthlyMeans", period,
                          calcBaselineMonthlyMeans(records, period.startYear,
                                                   period.endYear))
    /\ UNCHANGED <<records, data, held, others>>

CallCalcBaselineDailyMeans ==
    /\ result.op = NoResult.op
    /\ result' = Returned("calcBaselineDailyMeans", 0, calcBaselineDailyMeans(records))
    /\ UNCHANGED <<records, data, held, others>>

CallCalcMonthlyAnomalies ==
    /\ result.op = NoResult.op
    /\ result' = Returned("calcMonthlyAnomalies", 0, calcMonthlyAnomalies(records))
    /\ UNCHANGED <<records, data, held, others>>

NextMonths ==
    \/ \E y \in YearChoices, shape \in MonthShapes : LoadYear(y, shape)
    \/ ReverseRecords
    \/ SwapEnds
    \/ CallCalcBaselineAnnualMean
    \/ \E period \in PeriodChoices : CallCalcBaselineMonthlyMeans(period)
    \/ CallCalcBaselineDailyMeans
    \/ CallCalcMonthlyAnomalies
    \/ Discard

SpecMonths == Init /\ [][NextMonths]_vars

(***************************************************************************)
(* calcForecast on station files whose years of 300 records have the means *)
(* 10, 10.02 and 10.04: three years in this order, or in the opposite one, *)
(* lie on a line.                                                          *)
(***************************************************************************)
LineShapes ==
    { <<[n |-> 300, t |-> 10]>>,
      <<[n |-> 294, t |-> 10], [n |-> 6, t |-> 11]>>,
      <<[n |-> 288, t |-> 10], [n |-> 12, t |-> 11]>> }

NextLine ==
    \/ \E y \in YearChoices, shape \in LineShapes : LoadYear(y, shape)
    \/ \E yearsAhead \in 0..MaxYearsAhead : CallCalcForecast(yearsAhead)
    \/ Discard

SpecLine == Init /\ [][NextLine]_vars

(***************************************************************************)
(* Ingestion of the rows of one city: the rows arrive one by one (the      *)
(* items of the API pages in the order received, the lines of a CSV file   *)
(* in the order of the file), and a run of either script turns the rows    *)
(* received into the city's file.                                          *)
(***************************************************************************)
\* a run is given up to MaxRows rows
MaxRows == 3

Row(cols, tm, avgTa, minTa, maxTa) ==
    [cols |-> cols, tm |-> tm, avgTa |-> avgTa, minTa |-> minTa, maxTa |-> maxTa]

\* two days, one of them a second time with other values; a day without a
\* mean, a row without a date and a line that ends after the date
RowChoices ==
    { Row(6, 20000101, <<"9", ".", "5">>, <<"5">>, <<"1", "4">>),
      Row(6, 20000102, <<"-", "1">>, <<"-", "6", ".", "2">>, <<"3">>),
      Row(6, 20000101, <<"1", "2">>, <<"8">>, <<"1", "7">>),
      Row(6, 20000103, <<>>, <<"5">>, <<"1", "4">>),
      Row(6, 0, <<"1", "0">>, <<"5">>, <<"1", "4">>),
      Row(3, 20000104, <<>>, <<>>, <<>>) }

\* a row is received
PushRow(row) ==
    /\ result.op = NoResult.op
    /\ Len(data) < MaxRows
    /\ data' = Append(data, row)
    /\ UNCHANGED <<records, result, held, others>>

\* main of fetch-kma-data.ts for one city
RunFetchCityData ==
    /\ result.op = NoResult.op
    /\ result' = Returned("fetchCityData", 0, WriteUnlessEmpty(fetchCityData(data)))
    /\ UNCHANGED <<records, data, held, others>>

\* processFile for one CSV file
RunProcessFile ==
    /\ result.op = NoResult.op
    /\ result' = IF processFile(data) = Error
                 THEN Threw("processFile", 0, Error)
                 ELSE Returned("processFile", 0, processFile(data))
    /\ UNCHANGED <<records, data, held, others>>

NextIngest ==
    \/ \E row \in RowChoices : PushRow(row)
    \/ RunFetchCityData
    \/ RunProcessFile
    \/ Discard

SpecIngest == Init /\ [][NextIngest]_vars

(***************************************************************************)
(* groupByYear on a few days of a station file, in any order: January 1,   *)
(* the days around the end of February and December 31 of a common or a    *)
(* leap year, in a browser whose time zone is behind UTC, UTC, or ahead of *)
(* it.                                                                     *)
(***************************************************************************)
MaxGroupRecords == 3

\* the ordinal days of year y that are pushed
GroupDays(y) == {1, 59, 60, IF IsLeapYear(y) THEN 366 ELSE 365}

\* minutes ahead of UTC on January 1: America/New_York, UTC, Asia/Seoul
ZoneChoices == {-300, 0, 540}

PushDay(y, k) ==
    /\ result.op = NoResult.op
    /\ Len(records) < MaxGroupRecords
    /\ records' = Append(records, DailyRecord(DateOfDay(y, k), 10 + Len(records)))
    /\ UNCHANGED <<result, data, held, others>>

\* groupByYear sorting the records it was given, where the code sorts the
\* arrays it has built
CallGroupByYearSortingRecords(zone) ==
    /\ result.op = NoResult.op
    /\ result' = Returned("groupByYear", zone, groupByYear(records, zone))
    /\ records' = SortedByDate(records)
    /\ UNCHANGED <<data, held, others>>

CallGroupByYear(zone) ==
    /\ result.op = NoResult.op
    /\ result' = Returned("groupByYear", zone, groupByYear(records, zone))
    /\ UNCHANGED <<records, data, held, others>>

NextGroups ==
    \/ \E y \in YearChoices : \E k \in GroupDays(y) : PushDay(y, k)
    \/ \E zone \in ZoneChoices : CallGroupByYear(zone)
    \/ Discard

SpecGroups == Init /\ [][NextGroups]_vars

(***************************************************************************)
(* The calls of a page on a station file of one year: the components call  *)
(* the engine                                                              *)
(* one after the other on the records they are given, AnnualAnomalyChart   *)
(* passes the anomalies it got on to movingAverage, and a component holds  *)
(* the result of an earlier call while a later call is made.               *)
(***************************************************************************)
FrameYears == {BASELINE_END}

FrameShapes ==
    { <<[n |-> 300, t |-> 10]>>,
      <<[n |-> 150, t |-> 10], [n |-> 150, t |-> 14]>> }

\* anomalies.map((d) => ({ year: d.year, value: d.anomaly }))
TakeSeries ==
    /\ result.op = "calcAnnualAnomalies"
    /\ held.op = Nothing.op
    /\ data' = [i \in DOMAIN result.value |->
                   [year |-> result.value[i].year, value |-> result.value[i].anomaly]]
    /\ data' # data
    /\ UNCHANGED <<records, result, held, others>>

\* the caller keeps the result and goes on
Hold ==
    /\ result.op # NoResult.op
    /\ held.op = Nothing.op
    /\ held' = result
    /\ result' = NoResult
    /\ UNCHANGED <<records, data, others>>

NextFrame ==
    \/ \E y \in FrameYears, shape \in FrameShapes : held.op = Nothing.op /\ LoadYear(y, shape)
    \/ held.op = Nothing.op /\ ReverseRecords
    \/ TakeSeries
    \/ Hold
    \/ CallCalcBaselineAnnualMean
    \/ CallCalcBaselineMonthlyMeans([startYear |-> Undefined, endYear |-> Undefined])
    \/ CallCalcBaselineDailyMeans
    \/ CallCalcAnnualAnomalies
    \/ CallCalcMonthlyAnomalies
    \/ CallCalcDecadeStats
    \/ CallCalcCityStats
    \/ CallMovingAverage(MaxWindow)
    \/ CallGroupByYear(0)
    \/ CallCalcForecast(MaxYearsAhead)
    \/ CallDetectAnomalies(R(2))
    \/ CallDecomposeSeasonality
    \/ Discard

SpecFrame == Init /\ [][NextFrame]_vars

(***************************************************************************)
(* The Home page: the user selects cities, every selection of another city *)
(* starts the load of its file, and the loads are answered or fail in any  *)
(* order.                                                                  *)
(***************************************************************************)
MaxSelections == 3

\* three of the cities of CITIES
CityChoices == {"seoul", "busan", "daegu"}

\* the sequence s without its element at position i
Without(s, i) == SubSeq(s, 1, i - 1) \o SubSeq(s, i + 1, Len(s))

\* onCityChange(city.id) = setSelectedCity: for another city the effect runs
\* again, setLoading(true) and fetch(`/data/${selectedCity}.json`); for the
\* selected city the state is the same and nothing runs
SelectCity(c) ==
    /\ c # home.selectedCity
    /\ home.selections < MaxSelections
    /\ home' = [home EXCEPT !.selectedCity = c,
                            !.loading = TRUE,
                            !.loads = Append(@, c),
                            !.selections = @ + 1]
    /\ UNCHANGED <<records, result, data, held, hexMap, paging>>

\* .then((data) => { setRecords(data.records); setLoading(false); }) of the
\* load at position i
LoadArrives(i) ==
    /\ i \in DOMAIN home.loads
    /\ home' = [home EXCEPT !.records = home.loads[i],
                            !.loading = FALSE,
                            !.loads = Without(@, i)]
    /\ UNCHANGED <<records, result, data, held, hexMap, paging>>

\* .catch((err) => { console.error(...); setLoading(false); })
LoadFails(i) ==
    /\ i \in DOMAIN home.loads
    /\ home' = [home EXCEPT !.loading = FALSE,
                            !.loads = Without(@, i),
                            !.errors = @ + 1]
    /\ UNCHANGED <<records, result, data, held, hexMap, paging>>

NextHome ==
    \/ \E c \in CityChoices : SelectCity(c)
    \/ \E i \in 1..(MaxSelections + 1) : LoadArrives(i)
    \/ \E i \in 1..(MaxSelections + 1) : LoadFails(i)

SpecHome == Init /\ [][NextHome]_vars

(***************************************************************************)
(* fetchCityData asking page after page, chunk after chunk: every awaited  *)
(* fetchPage returns some items and a totalCount, or throws.  The page     *)
(* numbers from MaxPage on are not told apart.                             *)
(***************************************************************************)
\* const END_YEAR = new Date().getFullYear()
END_YEAR == CurrentYear

\* break, the end of the for body and year += CHUNK_YEARS: the next chunk
\* with pageNo = 1, fetched = 0, totalCount = Infinity, or the return when
\* year <= END_YEAR is false
AtNextChunk(p) ==
    IF p.year + CHUNK_YEARS <= END_YEAR
    THEN [PagingStarted EXCEPT !.year = p.year + CHUNK_YEARS]
    ELSE [p EXCEPT !.done = TRUE]

\* the loop after fetched += result.items.length: pageNo++ and, after the
\* sleep, the next pass of while (fetched < totalCount), or break
AfterPage(p) ==
    IF p.fetched < p.totalCount
    THEN [p EXCEPT !.pageNo = IF @ < MaxPage THEN @ + 1 ELSE @]
    ELSE AtNextChunk(p)

\* fetchPage returns items of the given length and the totalCount
PageArrives(items, totalCount) ==
    /\ ~paging.done
    /\ paging.fetched < paging.totalCount
    /\ paging' = AfterPage([paging EXCEPT !.totalCount = totalCount,
                                          !.fetched = @ + items])
    /\ UNCHANGED <<records, result, data, held, home, hexMap>>

\* fetchPage throws (HTTP status, resultCode, network): catch, break
PageFails ==
    /\ ~paging.done
    /\ paging.fetched < paging.totalCount
    /\ paging' = AtNextChunk(paging)
    /\ UNCHANGED <<records, result, data, held, home, hexMap>>

NextPaging ==
    \/ \E items \in 0..MaxItems, totalCount \in 0..MaxTotal : PageArrives(items, totalCount)
    \/ PageFails

SpecPaging == Init /\ [][NextPaging]_vars

\* every awaited fetchPage returns or throws in the end
SpecPagingFair == SpecPaging /\ WF_vars(NextPaging)

---------------------------------------------------------------------------
(***************************************************************************)
(* The HexMap: the files of all cities are asked for when it mounts, and   *)
(* once they have all arrived the period controls are shown: the play      *)
(* button, one button for each period, and the timer that runs while       *)
(* playing.                                                                *)
(***************************************************************************)

\* export const DATA_START_YEAR = 1961
DATA_START_YEAR == 1961

\* the ids of CITIES
CITIES ==
    {"seoul", "busan", "daegu", "daejeon", "incheon", "gwangju", "ulsan",
     "jeju"}

\* `${y}-${y + 4}`
PeriodFrom(y) == ToString(y) \o "-" \o ToString(y + 4)

\* for (let y = DATA_START_YEAR; y < cur; y += 5) periods.push(...), with
\* cur = new Date().getFullYear()
generatePeriods ==
    [i \in 1..((CurrentYear - DATA_START_YEAR + 4) \div 5) |->
        PeriodFrom(DATA_START_YEAR + 5 * (i - 1))]

\* periods.indexOf(p): the place of p counted from 0, -1 when it is absent
indexOf(list, p) ==
    IF \E i \in 1..Len(list) : list[i] = p
    THEN (CHOOSE i \in 1..Len(list) :
              list[i] = p /\ \A j \in 1..(i - 1) : list[j] # p) - 1
    ELSE -1

\* list[idx], counted from 0
At(list, idx) == list[idx + 1]

\* the file of a city arrives; Promise.all is fulfilled when the files of
\* all cities have arrived: setPeriod(periods[periods.length - 1]) and
\* setLoading(false)
FileArrives(c) ==
    /\ c \notin hexMap.arrived \cup hexMap.failed
    /\ LET arrived == hexMap.arrived \cup {c}
       IN  hexMap' =
             IF arrived = CITIES
             THEN [hexMap EXCEPT !.arrived = arrived,
                     !.period = At(generatePeriods, Len(generatePeriods) - 1),
                     !.loading = FALSE]
             ELSE [hexMap EXCEPT !.arrived = arrived]
    /\ UNCHANGED <<records, result, data, held, home, paging>>

\* the file of a city fails: Promise.all is rejected and nothing is set
FileFails(c) ==
    /\ c \notin hexMap.arrived \cup hexMap.failed
    /\ hexMap' = [hexMap EXCEPT !.failed = hexMap.failed \cup {c}]
    /\ UNCHANGED <<records, result, data, held, home, paging>>

\* a timer that never stops at the last period but starts over
TickStartingOver ==
    /\ hexMap.playing
    /\ LET idx == indexOf(generatePeriods, hexMap.period)
       IN  hexMap' =
             IF idx >= Len(generatePeriods) - 1
             THEN [hexMap EXCEPT !.period = At(generatePeriods, 0)]
             ELSE [hexMap EXCEPT !.period = At(generatePeriods, idx + 1)]
    /\ UNCHANGED <<records, result, data, held, home, paging>>

\* the timer set while playing fires: setPeriod((prev) => ...)
Tick ==
    /\ hexMap.playing
    /\ LET idx == indexOf(generatePeriods, hexMap.period)
       IN  hexMap' =
             IF idx >= Len(generatePeriods) - 1
             THEN [hexMap EXCEPT !.playing = FALSE]
             ELSE [hexMap EXCEPT !.period = At(generatePeriods, idx + 1)]
    /\ UNCHANGED <<records, result, data, held, home, paging>>

\* the play button, shown once loading is false
handlePlay ==
    /\ ~hexMap.loading
    /\ LET idx == indexOf(generatePeriods, hexMap.period)
       IN  hexMap' =
             IF hexMap.playing
             THEN [hexMap EXCEPT !.playing = FALSE]
             ELSE IF idx >= Len(generatePeriods) - 1
                  THEN [hexMap EXCEPT !.period = At(generatePeriods, 0),
                                      !.playing = TRUE]
                  ELSE [hexMap EXCEPT !.playing = TRUE]
    /\ UNCHANGED <<records, result, data, held, home, paging>>

\* the button of period p: setPlaying(false); setPeriod(p)
ClickPeriod(p) ==
    /\ ~hexMap.loading
    /\ hexMap' = [hexMap EXCEPT !.playing = FALSE, !.period = p]
    /\ UNCHANGED <<records, result, data, held, home, paging>>

NextHexMap ==
    \/ \E c \in CITIES : FileArrives(c)
    \/ \E c \in CITIES : FileFails(c)
    \/ Tick
    \/ handlePlay
    \/ \E i \in 1..Len(generatePeriods) : ClickPeriod(generatePeriods[i])

SpecHexMap == Init /\ [][NextHexMap]_vars

\* setInterval(..., 2000): while playing the timer fires again and again
SpecHexMapFair == SpecHexMap /\ WF_vars(Tick)

---------------------------------------------------------------------------
(***************************************************************************)
(* What the records hold, counted directly on the list: the reference the  *)
(* properties below compare the engine's results with.                     *)
(***************************************************************************)
\* the years that occur in the records
YearsIn(recs) == {YearOf(recs[i].date) : i \in DOMAIN recs}

\* the positions of the records dated in year Y
IndicesIn(recs, Y) == {i \in DOMAIN recs : YearOf(recs[i].date) = Y}

\* the number of records dated in year Y
CountIn(recs, Y) == Cardinality(IndicesIn(recs, Y))

\* the arithmetic mean of avgTemp over the records at the positions I
MeanOver(recs, I) ==
    Div(R(SumInt([i \in DOMAIN recs |-> IF i \in I THEN recs[i].avgTemp ELSE 0],
                 1, Len(recs))),
        R(Cardinality(I)))

\* the years with at least 300 records
QualifyingYears(recs) == {Y \in YearsIn(recs) : CountIn(recs, Y) >= 300}

\* the years of the entries of an annual series
EntryYears(series) == {series[i].year : i \in DOMAIN series}

(***************************************************************************)
(* C1.  calcAnnualAnomalies has an entry for year Y if and only if the     *)
(* records hold at least 300 records dated in Y: a year with 299 records   *)
(* has no entry, a year with 300 records has one.                          *)
(***************************************************************************)
AnnualEntryIffEnoughDays ==
    result.op = "calcAnnualAnomalies" =>
        \A Y \in YearsIn(records) \cup EntryYears(result.value) :
            Y \in EntryYears(result.value) <=> CountIn(records, Y) >= 300

\* a call on records with a year of 299 records and a year of 300 records
AnnualEntryBoundaryCalled ==
    /\ result.op = "calcAnnualAnomalies"
    /\ \E Y \in YearsIn(records) :
           CountIn(records, Y) = 299 /\ Y \notin EntryYears(result.value)
    /\ \E Y \in YearsIn(records) :
           CountIn(records, Y) = 300 /\ Y \in EntryYears(result.value)

(***************************************************************************)
(* C2.  calcForecast on records with fewer than 3 qualifying years (years  *)
(* of at least 300 records) fails with InsufficientDataError instead of    *)
(* returning a ForecastResult.                                             *)
(***************************************************************************)
ForecastRefusesShortSeries ==
    (result.op = "calcForecast" /\ Cardinality(QualifyingYears(records)) < 3)
        => result.threw = "InsufficientDataError"

(***************************************************************************)
(* C3.  No numeric field of any engine result is NaN, whatever the         *)
(* records (none at all, or no year of 300 records): not the mean, std and *)
(* zScore of detectAnomalies, not the slope, intercept, rSquared and the   *)
(* forecast value, lower and upper of calcForecast.                        *)
(***************************************************************************)
\* the numbers of an annual series
AnnualNumbers(series) ==
    UNION {{series[i].anomaly, series[i].avgTemp} : i \in DOMAIN series}

\* the numbers (not the nulls) of a returned result
NumbersOf(r) ==
    IF r.threw # "none" THEN {}
    ELSE CASE r.op = "calcAnnualAnomalies" -> AnnualNumbers(r.value)
           [] r.op = "calcForecast" ->
                {r.value.slope, r.value.intercept, r.value.rSquared,
                 r.value.slopePerDecade}
                \cup AnnualNumbers(r.value.historical)
                \cup UNION {{r.value.forecast[k].value, r.value.forecast[k].lower,
                             r.value.forecast[k].upper} : k \in DOMAIN r.value.forecast}
           [] r.op = "detectAnomalies" ->
                {r.value.mean, r.value.std, r.value.threshold}
                \cup AnnualNumbers(r.value.flags)
                \cup {r.value.flags[i].zScore : i \in DOMAIN r.value.flags}
           [] r.op = "decomposeSeasonality" ->
                UNION {{r.value.points[k].observed, r.value.points[k].trend,
                        r.value.points[k].seasonal, r.value.points[k].residual}
                       : k \in DOMAIN r.value.points} \ {Null}
           [] r.op = "movingAverage" -> {r.value[k].value : k \in DOMAIN r.value}
           [] OTHER -> {}

NoResultFieldIsNaN == \A x \in NumbersOf(result) : ~IsNaN(x)

(***************************************************************************)
(* C4.  For records whose monthly series (the months of at least 20        *)
(* records, in the order of time) has length L, decomposeSeasonality       *)
(* returns, with L points; the trend of point i (from 0) is not null       *)
(* exactly for 6 <= i <= L - 7, where it is                                *)
(* (0.5 x[i-6] + x[i-5] + ... + x[i+5] + 0.5 x[i+6]) / 12; the residual is *)
(* null exactly where the trend is.                                        *)
(***************************************************************************)
\* (0.5 x[i-6] + x[i-5] + ... + x[i+5] + 0.5 x[i+6]) / 12, for i from 0
CentredMean(x, i) ==
    Div(Add(Add(Mul(Frac(1, 2), x[i - 6 + 1].value),
                SumNum([j \in DOMAIN x |-> x[j].value], i - 5 + 1, i + 5 + 1)),
            Mul(Frac(1, 2), x[i + 6 + 1].value)),
        R(12))

DecompositionHasCentredTrend ==
    result.op = "decomposeSeasonality" =>
        LET x == MonthlySeries(records)
            L == Len(x)
        IN  /\ result.threw = "none"
            /\ Len(result.value.points) = L
            /\ \A i \in 0..(L - 1) :
                   LET p == result.value.points[i + 1]
                   IN  /\ p.trend # Null <=> (6 <= i /\ i <= L - 7)
                       /\ p.trend # Null => p.trend = CentredMean(x, i)
                       /\ p.residual = Null <=> p.trend = Null

(***************************************************************************)
(* C5.  Every point decomposeSeasonality returns with a defined trend has  *)
(* observed = trend + seasonal + residual, exactly.  The points with a     *)
(* defined trend are those of C4, the points 6 <= i <= L - 7 of a monthly  *)
(* series of length L: the call returns them, with a trend, a seasonal     *)
(* index and a residual that add up to the observed value.                 *)
(***************************************************************************)
DecompositionAddsUp ==
    result.op = "decomposeSeasonality" =>
        \A i \in 6..(Len(MonthlySeries(records)) - 7) :
            /\ result.threw = "none"
            /\ LET p == result.value.points[i + 1]
               IN  /\ p.trend # Null
                   /\ p.observed = Add(Add(p.trend, p.seasonal), p.residual)

\* the points the code does return: none of them has a trend
ReturnedTrendsAreNull ==
    (result.op = "decomposeSeasonality" /\ result.threw = "none") =>
        \A k \in DOMAIN result.value.points : result.value.points[k].trend = Null

(***************************************************************************)
(* C6.  Every entry of calcAnnualAnomalies has avgTemp equal to the        *)
(* arithmetic mean of avgTemp over all records of its year, and anomaly    *)
(* equal to that avgTemp minus calcBaselineAnnualMean, the mean of avgTemp *)
(* over all records dated 1973..2000.  With the records of 1973..2000 all  *)
(* at 10 and a later year of at least 300 records all at 12, the baseline  *)
(* is 10 and the anomaly of that year is 2.                                *)
(***************************************************************************)
\* the positions of the records dated 1973..2000
ReferenceIndices(recs) ==
    {i \in DOMAIN recs : 1973 <= YearOf(recs[i].date) /\ YearOf(recs[i].date) <= 2000}

\* the records at the positions I are all at temperature t
AllAt(recs, I, t) == \A i \in I : recs[i].avgTemp = t

AnnualMeanAndAnomaly ==
    result.op = "calcAnnualAnomalies" =>
        LET reference == ReferenceIndices(records)
            baseline == calcBaselineAnnualMean(records)
        IN  /\ reference # {} => baseline = MeanOver(records, reference)
            /\ \A i \in DOMAIN result.value :
                   LET e == result.value[i]
                       days == IndicesIn(records, e.year)
                   IN  /\ e.avgTemp = MeanOver(records, days)
                       /\ e.anomaly = Sub(e.avgTemp, baseline)
                       /\ (reference # {} /\ AllAt(records, reference, 10)
                           /\ AllAt(records, days, 12))
                              => (baseline = R(10) /\ e.anomaly = R(2))

\* a call on records that hold a year before 1973, the year 1973 and the
\* year 2000 all at 10, and the year 2001 all at 12
AnnualAnomalyOfTwoCalled ==
    /\ result.op = "calcAnnualAnomalies"
    /\ IndicesIn(records, 1972) # {}
    /\ IndicesIn(records, 1973) # {}
    /\ IndicesIn(records, 2000) # {}
    /\ AllAt(records, ReferenceIndices(records), 10)
    /\ AllAt(records, IndicesIn(records, 2001), 12)
    /\ \E i \in DOMAIN result.value :
           result.value[i].year = 2001 /\ result.value[i].anomaly = R(2)

(***************************************************************************)
(* C7.  calcAnnualAnomalies returns the same list for every order of the   *)
(* same records, and the list is strictly ascending by year (each year at  *)
(* most once) whatever the order of the records.                           *)
(***************************************************************************)
\* a step that puts the same records into another order
Reordered == ReverseRecords \/ SwapEnds

StrictlyAscendingByYear(series) ==
    \A i, j \in DOMAIN series : i < j => series[i].year < series[j].year

AnnualAnomaliesOrderIndependent ==
    /\ [](result.op = "calcAnnualAnomalies" => StrictlyAscendingByYear(result.value))
    /\ [][Reordered => calcAnnualAnomalies(records') = calcAnnualAnomalies(records)]_vars

\* a call on records that are not in the order of their dates, with
\* entries for two years or more
AnnualAnomaliesOfReorderedCalled ==
    /\ result.op = "calcAnnualAnomalies"
    /\ ~Chronological(records)
    /\ Len(result.value) >= 2

(***************************************************************************)
(* C8.  For every series and every window w >= 1, movingAverage(series, w) *)
(* has the length of the series, the year of the series at every index and *)
(* a number (never an absent value) at every index; and                    *)
(* movingAverage(series, 1) is the series.                                 *)
(***************************************************************************)
MovingAverageKeepsShape ==
    result.op = "movingAverage" =>
        /\ Len(result.value) = Len(data)
        /\ \A k \in DOMAIN data :
               /\ result.value[k].year = data[k].year
               /\ DOMAIN result.value[k] = {"year", "value"}
               /\ result.value[k].value # Null
               /\ IsFiniteNum(result.value[k].value)
        /\ result.arg = 1 => result.value = data

\* a call with window 1 on a series of three points or more, not all equal
MovingAverageOfOneCalled ==
    /\ result.op = "movingAverage"
    /\ result.arg = 1
    /\ Len(data) >= 3
    /\ \E k \in DOMAIN data : data[k].value # data[1].value

(***************************************************************************)
(* C9.  In every flag of detectAnomalies(records, threshold), isAnomaly is *)
(* true if and only if |zScore| > threshold, strictly: a year whose zScore *)
(* is threshold or -threshold is not flagged.  When the standard deviation *)
(* of the annual anomalies is 0, every zScore is 0 and no year is flagged. *)
(* The thresholds are numbers of standard deviations: none is negative.    *)
(***************************************************************************)
\* |z| > t for t >= 0, by the squares: z^2 > t^2
Beyond(z, t) == QLt(Square(t).a, Square(z).a)

FlaggedIffBeyondThreshold ==
    result.op = "detectAnomalies" =>
        LET flags == result.value.flags
        IN  /\ result.value.threshold = result.arg
            /\ \A i \in DOMAIN flags :
                   /\ flags[i].isAnomaly <=> Beyond(flags[i].zScore, result.arg)
                   /\ MathAbs(flags[i].zScore) = result.arg => ~flags[i].isAnomaly
            /\ result.value.std = R(0) =>
                   \A i \in DOMAIN flags :
                       flags[i].zScore = R(0) /\ ~flags[i].isAnomaly

\* a call with a threshold above 0 whose flags hold a year with a zScore
\* of exactly the threshold (or its opposite), which is not flagged
ThresholdMetCalled ==
    /\ result.op = "detectAnomalies"
    /\ result.arg # R(0)
    /\ \E i \in DOMAIN result.value.flags :
           /\ MathAbs(result.value.flags[i].zScore) = result.arg
           /\ ~result.value.flags[i].isAnomaly

\* a call with a threshold above 0 that flags a year
YearFlaggedCalled ==
    /\ result.op = "detectAnomalies"
    /\ result.arg # R(0)
    /\ \E i \in DOMAIN result.value.flags : result.value.flags[i].isAnomaly

\* a call on anomalies of standard deviation 0, for two years or more
NoSpreadCalled ==
    /\ result.op = "detectAnomalies"
    /\ result.value.std = R(0)
    /\ Len(result.value.flags) >= 2

(***************************************************************************)
(* C10.  For records with at least 3 qualifying years and yearsAhead >= 0, *)
(* calcForecast returns exactly yearsAhead forecast points, for the years  *)
(* lastObservedYear + 1, ..., lastObservedYear + yearsAhead in that order, *)
(* where lastObservedYear is the largest year of historical, and           *)
(* historical is calcAnnualAnomalies of the same records.                  *)
(***************************************************************************)
ForecastCoversHorizon ==
    (result.op = "calcForecast" /\ Cardinality(QualifyingYears(records)) >= 3) =>
        /\ result.threw = "none"
        /\ result.value.historical = calcAnnualAnomalies(records)
        /\ Len(result.value.forecast) = result.arg
        /\ LET lastObservedYear == MaxOf(EntryYears(result.value.historical))
           IN  \A k \in 1..result.arg :
                   result.value.forecast[k].year = lastObservedYear + k

\* a call for two years ahead or more on records with 3 qualifying years
\* or more that are not in the order of their dates
ForecastOfLongSeriesCalled ==
    /\ result.op = "calcForecast"
    /\ result.arg >= 2
    /\ Cardinality(QualifyingYears(records)) >= 3
    /\ ~Chronological(records)
    /\ Len(result.value.forecast) = result.arg

(***************************************************************************)
(* C11.  A year with fewer than 300 records appears in no year-keyed       *)
(* output: it has no entry in calcAnnualAnomalies, none in the historical  *)
(* series of calcForecast, no flag in detectAnomalies, no part in a decade *)
(* mean of calcDecadeStats, and no entry in the tropicalNights and         *)
(* heatwaveDays lists of calcCityStats.                                    *)
(***************************************************************************)
\* the decade means with the records of the years Y left out
DecadeMeansWithout(recs, Y) ==
    LET rest == SelectSeq(recs, LAMBDA r : YearOf(r.date) \notin Y)
        stats == calcDecadeStats(rest)
    IN  [i \in DOMAIN stats |-> <<stats[i].startYear, stats[i].avgTemp>>]

ShortYearsAppearNowhere ==
    LET Short == YearsIn(records) \ QualifyingYears(records)
    IN  /\ result.op = "calcAnnualAnomalies" =>
               EntryYears(result.value) \cap Short = {}
        /\ result.op = "calcForecast" =>
               EntryYears(result.value.historical) \cap Short = {}
        /\ result.op = "detectAnomalies" =>
               EntryYears(result.value.flags) \cap Short = {}
        /\ result.op = "calcDecadeStats" =>
               [i \in DOMAIN result.value |->
                   <<result.value[i].startYear, result.value[i].avgTemp>>]
                 = DecadeMeansWithout(records, Short)
        /\ result.op = "calcCityStats" =>
               /\ EntryYears(result.value.tropicalNights) \cap Short = {}
               /\ EntryYears(result.value.heatwaveDays) \cap Short = {}

\* the other outputs do leave the short years out
ShortYearsLeftOutOfDecades ==
    result.op = "calcDecadeStats" =>
        [i \in DOMAIN result.value |->
            <<result.value[i].startYear, result.value[i].avgTemp>>]
          = DecadeMeansWithout(records, YearsIn(records) \ QualifyingYears(records))

(***************************************************************************)
(* C12.  calcDecadeStats returns its entries in ascending order of         *)
(* startYear, one for each decade 1960s..2020s that has at least one year  *)
(* of at least 300 records (a decade of which the records cover only a     *)
(* part has an entry too); the diffFromFirst of an entry is its avgTemp    *)
(* minus the avgTemp of the first entry returned, so it is 0 for the first *)
(* entry.                                                                  *)
(***************************************************************************)
\* the qualifying years of the decade that starts with the year start
QualifyingIn(recs, start) ==
    {Y \in QualifyingYears(recs) : start <= Y /\ Y <= start + 9}

\* the first years of the decades 1960s..2020s with a qualifying year
DecadesPresent(recs) ==
    {start \in {1960 + 10 * k : k \in 0..6} : QualifyingIn(recs, start) # {}}

DecadesAscendingFromFirst ==
    result.op = "calcDecadeStats" =>
        LET d == result.value
        IN  /\ {d[i].startYear : i \in DOMAIN d} = DecadesPresent(records)
            /\ \A i \in DOMAIN d :
                   /\ i > 1 => d[i - 1].startYear < d[i].startYear
                   /\ d[i].endYear = d[i].startYear + 9
                   /\ d[i].decade = ToString(d[i].startYear) \o "s"
                   /\ d[i].diffFromFirst = Sub(d[i].avgTemp, d[1].avgTemp)
            /\ Len(d) > 0 => d[1].diffFromFirst = R(0)

\* a call on records that cover a part of the 1960s, with one qualifying
\* year there, and 1970 at another mean
TwoDecadesCalled ==
    /\ result.op = "calcDecadeStats"
    /\ Len(result.value) = 2
    /\ Cardinality(QualifyingIn(records, 1960)) = 1
    /\ result.value[1].decade = "1960s"
    /\ result.value[1].diffFromFirst = R(0)
    /\ result.value[2].diffFromFirst # R(0)

(***************************************************************************)
(* C13.  The avgTemp of a decade of calcDecadeStats is the unweighted mean *)
(* of the yearly means of its qualifying years (the years start..start + 9 *)
(* with at least 300 records), not the mean over all daily records of the  *)
(* decade: two qualifying years with different numbers of records count    *)
(* the same.                                                               *)
(***************************************************************************)
\* the unweighted mean of the yearly means of the years Y
MeanOfYearlyMeans(recs, Y) ==
    LET ys == SortedBy(Y, [y \in Y |-> y])
    IN  MeanNum([k \in DOMAIN ys |-> MeanOver(recs, IndicesIn(recs, ys[k]))])

\* the mean over all records of the years Y
MeanOfAllDays(recs, Y) ==
    MeanOver(recs, {i \in DOMAIN recs : YearOf(recs[i].date) \in Y})

DecadeMeanOfYearlyMeans ==
    result.op = "calcDecadeStats" =>
        \A i \in DOMAIN result.value :
            result.value[i].avgTemp =
                MeanOfYearlyMeans(records, QualifyingIn(records, result.value[i].startYear))

\* a call on records with a decade of two qualifying years that differ in
\* their number of records and in their means
UnequalYearsCalled ==
    /\ result.op = "calcDecadeStats"
    /\ \E i \in DOMAIN result.value :
           LET Y == QualifyingIn(records, result.value[i].startYear)
           IN  /\ \E y1, y2 \in Y : CountIn(records, y1) < CountIn(records, y2)
               /\ result.value[i].avgTemp # MeanOfAllDays(records, Y)

(***************************************************************************)
(* C14.  calcMonthlyAnomalies returns exactly one entry for each month of  *)
(* a year that has at least 20 records and none for a month with 19 or     *)
(* fewer, and the entries are in ascending order of the year and, within a *)
(* year, of the month, whatever the order of the records.                  *)
(***************************************************************************)
\* the number of records dated in month m of year Y
CountInMonth(recs, Y, m) ==
    Cardinality({i \in DOMAIN recs :
                    YearOf(recs[i].date) = Y /\ MonthOf(recs[i].date) = m})

\* the months <<year, month>> that occur in the records
MonthsIn(recs) == {<<YearOf(recs[i].date), MonthOf(recs[i].date)>> : i \in DOMAIN recs}

MonthlyEntryIffEnoughDays ==
    result.op = "calcMonthlyAnomalies" =>
        LET a == result.value
        IN  /\ {<<a[i].year, a[i].month>> : i \in DOMAIN a}
                 = {ym \in MonthsIn(records) : CountInMonth(records, ym[1], ym[2]) >= 20}
            /\ \A i \in 2..Len(a) :
                   \/ a[i - 1].year < a[i].year
                   \/ a[i - 1].year = a[i].year /\ a[i - 1].month < a[i].month

\* a call on records out of the order of time, with a month of 19 records
\* and, in another year, a month of 20 records
MonthlyBoundaryCalled ==
    /\ result.op = "calcMonthlyAnomalies"
    /\ ~Chronological(records)
    /\ \E ym \in MonthsIn(records) : CountInMonth(records, ym[1], ym[2]) = 19
    /\ \E i \in DOMAIN result.value :
           /\ CountInMonth(records, result.value[i].year, result.value[i].month) = 20
           /\ i > 2

(***************************************************************************)
(* C16.  On records none of which is dated in the reference period (and on *)
(* no records at all), calcBaselineAnnualMean returns 0,                   *)
(* calcBaselineMonthlyMeans returns a map that holds all 12 months, each   *)
(* with 0, and calcBaselineDailyMeans returns an empty map; none of them   *)
(* throws.                                                                 *)
(***************************************************************************)
\* no record is dated 1973..2000
NoneInReferencePeriod(recs) == YearsIn(recs) \cap (1973..2000) = {}

DefaultPeriod == [startYear |-> Undefined, endYear |-> Undefined]

BaselinesOfNothing ==
    NoneInReferencePeriod(records) =>
        /\ result.op = "calcBaselineAnnualMean" =>
               result.threw = "none" /\ result.value = R(0)
        /\ (result.op = "calcBaselineMonthlyMeans" /\ result.arg = DefaultPeriod) =>
               /\ result.threw = "none"
               /\ Len(result.value.keys) = 12
               /\ {result.value.keys[i] : i \in 1..12} = 1..12
               /\ \A m \in 1..12 : result.value.get[m] = R(0)
        /\ result.op = "calcBaselineDailyMeans" =>
               /\ result.threw = "none"
               /\ result.value.keys = <<>>
               /\ DOMAIN result.value.get = {}

\* calls on the records of a year after the reference period
MonthlyBaselineOfNothingCalled ==
    /\ records # <<>>
    /\ NoneInReferencePeriod(records)
    /\ result.op = "calcBaselineMonthlyMeans"
    /\ result.arg = DefaultPeriod
    /\ result.value.get[1] = R(0)

AnnualBaselineOfNothingCalled ==
    /\ records # <<>>
    /\ NoneInReferencePeriod(records)
    /\ result.op = "calcBaselineAnnualMean"

DailyBaselineOfNothingCalled ==
    /\ records # <<>>
    /\ NoneInReferencePeriod(records)
    /\ result.op = "calcBaselineDailyMeans"

BaselineOfNoRecordsCalled ==
    /\ records = <<>>
    /\ result.op = "calcBaselineDailyMeans"

(***************************************************************************)
(* C19.  The anomaly of an entry of calcMonthlyAnomalies is the mean       *)
(* avgTemp of its month minus the mean avgTemp of the records of the same  *)
(* calendar month dated 1973..2000, never the annual baseline: two entries *)
(* of one year in different calendar months are compared with different    *)
(* baselines.                                                              *)
(***************************************************************************)
\* the positions of the records of calendar month m dated 1973..2000
ReferenceIndicesOfMonth(recs, m) ==
    {i \in DOMAIN recs : YearOf(recs[i].date) \in 1973..2000 /\ MonthOf(recs[i].date) = m}

\* the positions of the records of month m of year Y
IndicesInMonth(recs, Y, m) ==
    {i \in DOMAIN recs : YearOf(recs[i].date) = Y /\ MonthOf(recs[i].date) = m}

MonthlyAnomalyAgainstItsMonth ==
    result.op = "calcMonthlyAnomalies" =>
        \A i \in DOMAIN result.value :
            LET e == result.value[i]
                ref == ReferenceIndicesOfMonth(records, e.month)
            IN  /\ e.avgTemp = MeanOver(records, IndicesInMonth(records, e.year, e.month))
                /\ ref # {} => e.anomaly = Sub(e.avgTemp, MeanOver(records, ref))

\* a call that returns two entries of one year whose baselines differ, both
\* unlike the annual baseline
TwoMonthsOfAYearCalled ==
    /\ result.op = "calcMonthlyAnomalies"
    /\ \E i, j \in DOMAIN result.value :
           LET e == result.value[i]
               f == result.value[j]
           IN  /\ e.year = f.year
               /\ e.month # f.month
               /\ Sub(e.avgTemp, e.anomaly) # Sub(f.avgTemp, f.anomaly)
               /\ Sub(e.avgTemp, e.anomaly) # calcBaselineAnnualMean(records)
               /\ Sub(f.avgTemp, f.anomaly) # calcBaselineAnnualMean(records)
               /\ ReferenceIndicesOfMonth(records, e.month) # {}
               /\ ReferenceIndicesOfMonth(records, f.month) # {}

(***************************************************************************)
(* C15.  When the annual anomalies of at least 3 distinct years lie        *)
(* exactly on a line anomaly = a * year + b with a # 0, calcForecast       *)
(* returns slope = a, intercept = b, rSquared = 1 and slopePerDecade =     *)
(* 10 * a, and every forecast value is a * year + b.  (In exact            *)
(* arithmetic: the rounding of the code's floating-point sums is not       *)
(* modelled.)                                                              *)
(***************************************************************************)
\* the slope and the intercept of the line through the first two entries
LineSlope(h) ==
    Div(Sub(h[2].anomaly, h[1].anomaly), R(h[2].year - h[1].year))

LineIntercept(h) == Sub(h[1].anomaly, Mul(LineSlope(h), R(h[1].year)))

\* at least 3 entries, all on one line that is not level
OnALine(h) ==
    IF Len(h) < 3 THEN FALSE
    ELSE /\ LineSlope(h) # R(0)
         /\ \A i \in DOMAIN h :
                h[i].anomaly = Add(Mul(LineSlope(h), R(h[i].year)), LineIntercept(h))

ForecastRecoversLine ==
    result.op = "calcForecast" =>
        LET h == result.value.historical
        IN  OnALine(h) =>
                /\ result.value.slope = LineSlope(h)
                /\ result.value.intercept = LineIntercept(h)
                /\ result.value.rSquared = R(1)
                /\ result.value.slopePerDecade = Mul(R(10), LineSlope(h))
                /\ \A k \in DOMAIN result.value.forecast :
                       result.value.forecast[k].value =
                           Add(Mul(LineSlope(h), R(result.value.forecast[k].year)),
                               LineIntercept(h))

\* a forecast from three years that rise by 0.02 a year
ForecastOfRisingLineCalled ==
    /\ result.op = "calcForecast"
    /\ result.arg = MaxYearsAhead
    /\ OnALine(result.value.historical)
    /\ result.value.slope = Frac(2, 100)
    /\ result.value.rSquared = R(1)
    /\ Len(result.value.forecast) = MaxYearsAhead

(***************************************************************************)
(* C17.  Every record list that ingestion writes (fetchCityData for the    *)
(* API, parseCSV and processFile for a CSV file) is strictly ascending by  *)
(* date, that is sorted with at most one record per calendar date,         *)
(* whatever the API pages or the CSV rows hold, and has no record with a   *)
(* NaN temperature.                                                        *)
(***************************************************************************)
Ingested == result.op \in {"fetchCityData", "processFile"} /\ result.threw = "none"

WrittenStrictlyAscending ==
    Ingested =>
        LET w == result.value.records
        IN  /\ \A i \in 2..Len(w) : w[i - 1].date < w[i].date
            /\ \A i \in DOMAIN w : ~HasMissingValue(w[i])

\* what the written lists do have: the order of the dates, two records of
\* one date next to each other, and no NaN
WrittenAscendingWithoutNaN ==
    Ingested =>
        LET w == result.value.records
        IN  /\ \A i \in 2..Len(w) : w[i - 1].date <= w[i].date
            /\ \A i \in DOMAIN w : ~HasMissingValue(w[i])

\* a CSV file with two lines of one day: both are written
SameDayWrittenTwice ==
    /\ result.op = "processFile"
    /\ result.threw = "none"
    /\ \E i \in 2..Len(result.value.records) :
           /\ result.value.records[i - 1].date = 20000101
           /\ result.value.records[i].date = 20000101

(***************************************************************************)
(* C18.  When the monthly series of decomposeSeasonality has a gap (a      *)
(* calendar month without records, or dropped for having fewer than 20),   *)
(* the trend is absent for every point whose window of 13 months, from 6   *)
(* calendar months before it to 6 after it, holds the missing month: a     *)
(* trend is only ever computed from 13 consecutive calendar months.        *)
(***************************************************************************)
\* the months counted from year 0
MonthNumber(p) == p.year * 12 + p.month

\* the points i - 6 .. i + 6 (i from 0) are 13 consecutive calendar months
WindowUnbroken(x, i) == MonthNumber(x[i + 6 + 1]) - MonthNumber(x[i - 6 + 1]) = 12

TrendOnlyAcrossUnbrokenWindow ==
    result.op = "decomposeSeasonality" =>
        LET x == MonthlySeries(records)
        IN  /\ \A i \in TrendAssigned(Len(x)) : WindowUnbroken(x, i)
            /\ result.threw = "none" =>
                   \A i \in 0..(Len(x) - 1) :
                       result.value.points[i + 1].trend # Null =>
                           (6 <= i /\ i <= Len(x) - 7 /\ WindowUnbroken(x, i))

(***************************************************************************)
(* C20.  In the result of decomposeSeasonality all points of one calendar  *)
(* month have the same seasonal value, in every year and also where the    *)
(* trend is absent: the mean of observed - trend over the points of that   *)
(* calendar month that have a trend (those of C4, the points               *)
(* 6 <= i <= L - 7), and 0 when the month has none.                        *)
(***************************************************************************)
\* the mean of observed - trend over the points of calendar month m with a
\* trend, 0 without any
SeasonalOfMonth(x, m) ==
    LET I == {i \in 6..(Len(x) - 7) : x[i + 1].month = m}
        at == SortedBy(I, [i \in I |-> i])
    IN  IF I = {} THEN R(0)
        ELSE MeanNum([k \in DOMAIN at |->
                         Sub(x[at[k] + 1].value, CentredMean(x, at[k]))])

SeasonalIsMeanOfItsMonth ==
    result.op = "decomposeSeasonality" =>
        LET x == MonthlySeries(records)
        IN  /\ result.threw = "none"
            /\ Len(result.value.points) = Len(x)
            /\ \A k \in DOMAIN x :
                   result.value.points[k].seasonal = SeasonalOfMonth(x, x[k].month)

\* the points the code does return all have the seasonal value 0
ReturnedSeasonalIsZero ==
    (result.op = "decomposeSeasonality" /\ result.threw = "none") =>
        \A k \in DOMAIN result.value.points : result.value.points[k].seasonal = R(0)

(***************************************************************************)
(* C21.  For every index i of a series of n points and h = floor(window/2) *)
(* the value of movingAverage at i is the arithmetic mean of the values at *)
(* the indices max(0, i - h) .. min(n - 1, i + h): an edge point averages  *)
(* fewer points, and nothing stands in for the points outside the series.  *)
(***************************************************************************)
\* the indices (from 0) of the window around i that lie in a series of n points
ClippedWindow(n, h, i) == {j \in 0..(n - 1) : i - h <= j /\ j <= i + h}

\* the arithmetic mean of the values of the series at the indices J
MeanOfPoints(series, J) ==
    Div(SumNum([k \in DOMAIN series |->
                   IF k - 1 \in J THEN series[k].value ELSE R(0)], 1, Len(series)),
        R(Cardinality(J)))

MovingAverageIsClippedMean ==
    result.op = "movingAverage" =>
        \A k \in DOMAIN data :
            result.value[k].value =
                MeanOfPoints(data, ClippedWindow(Len(data), result.arg \div 2, k - 1))

\* a call whose window reaches past both ends of the series at some point and
\* lies inside it at another, on values that are not all equal
MovingAverageAtEdgesCalled ==
    /\ result.op = "movingAverage"
    /\ result.arg = 3
    /\ Len(data) = 4
    /\ data[1].value # R(0)
    /\ data[1].value # data[2].value
    /\ result.value[1].value = MeanOfPoints(data, {0, 1})
    /\ result.value[1].value # MeanOfPoints(data, {0, 1, 2})

(***************************************************************************)
(* C22.  For records with at least 3 qualifying years every forecast point *)
(* of calcForecast has value = slope * year + intercept and an interval    *)
(* that is symmetric around it: value - lower = upper - value >= 0, with   *)
(* the square of the half-width equal to                                   *)
(*   1.96^2 * (sum of squared residuals / (n - 2))                         *)
(*          * (1 + 1/n + (year - mean year)^2 / Sxx);                      *)
(* and slopePerDecade = 10 * slope.                                        *)
(***************************************************************************)
\* the mean of the years of the entries h
MeanYear(h) == Div(R(SumInt([i \in DOMAIN h |-> h[i].year], 1, Len(h))), R(Len(h)))

\* Sxx: the sum of (year - mean year)^2 over the entries h
YearSpread(h) ==
    SumNum([i \in DOMAIN h |-> Square(Sub(R(h[i].year), MeanYear(h)))], 1, Len(h))

\* the sum of the squares of anomaly - (slope * year + intercept) over h
SquaredResiduals(h, slope, intercept) ==
    SumNum([i \in DOMAIN h |->
               Square(Sub(h[i].anomaly, Add(Mul(slope, R(h[i].year)), intercept)))],
           1, Len(h))

\* the square of the half-width of the interval for the year y
SquaredHalfWidth(h, slope, intercept, y) ==
    Mul(Mul(Square(Frac(196, 100)),
            Div(SquaredResiduals(h, slope, intercept), R(Len(h) - 2))),
        Add(Add(R(1), Div(R(1), R(Len(h)))),
            Div(Square(Sub(R(y), MeanYear(h))), YearSpread(h))))

ForecastIntervalSymmetric ==
    (result.op = "calcForecast" /\ Cardinality(QualifyingYears(records)) >= 3) =>
        LET f == result.value
        IN  /\ f.slopePerDecade = Mul(R(10), f.slope)
            /\ \A k \in DOMAIN f.forecast :
                   LET p == f.forecast[k]
                   IN  /\ p.value = Add(Mul(f.slope, R(p.year)), f.intercept)
                       /\ Sub(p.value, p.lower) = Sub(p.upper, p.value)
                       /\ ~Gt(R(0), Sub(p.upper, p.value))
                       /\ Num(SignedSquare(Sub(p.upper, p.value))) =
                              SquaredHalfWidth(result.value.historical,
                                               f.slope, f.intercept, p.year)

\* a forecast from three years that do not lie on a line, so that the
\* interval has a width
ForecastWithIntervalCalled ==
    /\ result.op = "calcForecast"
    /\ result.arg = MaxYearsAhead
    /\ Cardinality(QualifyingYears(records)) >= 3
    /\ Len(result.value.forecast) = MaxYearsAhead
    /\ result.value.slope # R(0)
    /\ \A k \in DOMAIN result.value.forecast :
           Gt(Sub(result.value.forecast[k].upper, result.value.forecast[k].value), R(0))

(***************************************************************************)
(* C23.  For records that are not empty calcCityStats returns              *)
(* allTimeHigh.value = the maximum maxTemp with allTimeHigh.date = the     *)
(* date of the first record in input order that attains it, and            *)
(* allTimeLow.value = the minimum minTemp with the date of the first       *)
(* record that attains it: a later record that ties the extreme so far     *)
(* never replaces it.                                                      *)
(***************************************************************************)
\* the position of the first record of recs whose field has the value v
FirstWith(recs, field, v) ==
    CHOOSE i \in DOMAIN recs :
        /\ recs[i][field] = v
        /\ {j \in 1..(i - 1) : recs[j][field] = v} = {}

ExtremesFirstSeen ==
    (result.op = "calcCityStats" /\ records # <<>>) =>
        LET top == MaxOf({records[i].maxTemp : i \in DOMAIN records})
            bottom == -MaxOf({-records[i].minTemp : i \in DOMAIN records})
        IN  /\ result.value.allTimeHigh.value = R(top)
            /\ result.value.allTimeHigh.date = records[FirstWith(records, "maxTemp", top)].date
            /\ result.value.allTimeLow.value = R(bottom)
            /\ result.value.allTimeLow.date = records[FirstWith(records, "minTemp", bottom)].date

\* a call on records that are not in the order of their dates, where the
\* hottest day comes more than once and the first of them in the input is
\* neither the first record nor the earliest date
TiedExtremesCalled ==
    /\ result.op = "calcCityStats"
    /\ ~Chronological(records)
    /\ LET top == MaxOf({records[i].maxTemp : i \in DOMAIN records})
           tied == {i \in DOMAIN records : records[i].maxTemp = top}
       IN  /\ Cardinality(tied) >= 2
           /\ 1 \notin tied
           /\ \E i \in tied :
                  records[i].date < records[FirstWith(records, "maxTemp", top)].date
           /\ result.value.allTimeHigh.date
                  = records[FirstWith(records, "maxTemp", top)].date

(***************************************************************************)
(* C24.  In calcCityStats the tropicalNights count of a year is the number *)
(* of that year's records with minTemp >= 25 and the heatwaveDays count    *)
(* the number with maxTemp >= 33, both boundaries included; a record is    *)
(* classified for the two lists independently, so that one record can      *)
(* count in both; and both lists are strictly ascending by year.  (A year  *)
(* has an entry in a list when its count there is 1 or more.)              *)
(***************************************************************************)
TropicalNightsIn(recs, Y) ==
    Cardinality({i \in IndicesIn(recs, Y) : recs[i].minTemp >= 25})

HeatwaveDaysIn(recs, Y) ==
    Cardinality({i \in IndicesIn(recs, Y) : recs[i].maxTemp >= 33})

\* the entries of list are those of the years with a count of 1 or more
CountsAre(list, years, count) ==
    /\ StrictlyAscendingByYear(list)
    /\ EntryYears(list) = {Y \in years : count[Y] >= 1}
    /\ \A k \in DOMAIN list : list[k].count = count[list[k].year]

ExceedanceCountsPerYear ==
    result.op = "calcCityStats" =>
        /\ CountsAre(result.value.tropicalNights, YearsIn(records),
                     [Y \in YearsIn(records) |-> TropicalNightsIn(records, Y)])
        /\ CountsAre(result.value.heatwaveDays, YearsIn(records),
                     [Y \in YearsIn(records) |-> HeatwaveDaysIn(records, Y)])

\* a call on records that are not in the order of their dates, with a record
\* at each boundary (minTemp 25, maxTemp 33), a record that counts in both
\* lists, and a year whose two counts differ
BoundaryDaysCalled ==
    /\ result.op = "calcCityStats"
    /\ ~Chronological(records)
    /\ \E i \in DOMAIN records : records[i].minTemp = 25 /\ records[i].maxTemp >= 33
    /\ \E i \in DOMAIN records : records[i].maxTemp = 33 /\ records[i].minTemp < 25
    /\ Len(result.value.heatwaveDays) >= 2
    /\ \E k \in DOMAIN result.value.tropicalNights, l \in DOMAIN result.value.heatwaveDays :
           /\ result.value.tropicalNights[k].year = result.value.heatwaveDays[l].year
           /\ result.value.tropicalNights[k].count = 1
           /\ result.value.heatwaveDays[l].count = 3

(***************************************************************************)
(* C25.  groupByYear places every record in exactly one group, the group   *)
(* of its calendar year, sorts each group ascending by dayOfYear, and      *)
(* gives each record a dayOfYear in 1..366 that is its ordinal day within  *)
(* its year (1 for January 1, 60 for February 29 of a leap year, 366 for   *)
(* December 31 of a leap year), in whatever time zone the code runs.       *)
(***************************************************************************)
\* the ordinal day of the date within its calendar year, from the calendar
OrdinalDay(date) ==
    CHOOSE k \in 1..(IF IsLeapYear(YearOf(date)) THEN 366 ELSE 365) :
        DateOfDay(YearOf(date), k) = date

\* the groups are those of the calendar years, each with the records of its
\* year and no other, ascending by dayOfYear
GroupedByCalendarYear(recs, grouped) ==
    /\ {grouped.keys[k] : k \in DOMAIN grouped.keys} = YearsIn(recs)
    /\ Len(grouped.keys) = Cardinality(YearsIn(recs))
    /\ \A Y \in YearsIn(recs) :
           LET days == grouped.get[Y]
           IN  /\ Len(days) = CountIn(recs, Y)
               /\ \A k \in DOMAIN days : YearOf(days[k].date) = Y
               /\ \A i \in IndicesIn(recs, Y) :
                      \E k \in DOMAIN days :
                          days[k].date = recs[i].date /\ days[k].avgTemp = recs[i].avgTemp
               /\ \A k \in 1..(Len(days) - 1) : days[k].dayOfYear <= days[k + 1].dayOfYear

\* every dayOfYear is the ordinal day of its date
DaysAreOrdinal(grouped) ==
    \A n \in DOMAIN grouped.keys :
        \A k \in DOMAIN grouped.get[grouped.keys[n]] :
            LET d == grouped.get[grouped.keys[n]][k]
            IN  d.dayOfYear \in 1..366 /\ d.dayOfYear = OrdinalDay(d.date)

GroupByYearOrdinalDays ==
    result.op = "groupByYear" =>
        /\ GroupedByCalendarYear(records, result.value)
        /\ DaysAreOrdinal(result.value)

\* the grouping and the order hold in every time zone
GroupByYearGroupsAndSorts ==
    result.op = "groupByYear" => GroupedByCalendarYear(records, result.value)

\* the days are the ordinal days where the time zone is UTC or ahead of it
OrdinalDaysAheadOfUTC ==
    (result.op = "groupByYear" /\ result.arg >= 0) => DaysAreOrdinal(result.value)

\* behind UTC every dayOfYear is one less than the ordinal day: 0 for January 1
DaysBehindUTCOneLess ==
    (result.op = "groupByYear" /\ result.arg < 0) =>
        \A n \in DOMAIN result.value.keys :
            \A k \in DOMAIN result.value.get[result.value.keys[n]] :
                LET d == result.value.get[result.value.keys[n]][k]
                IN  d.dayOfYear = OrdinalDay(d.date) - 1

\* a call in Asia/Seoul on December 31 and February 29 of a leap year and on
\* January 1 of another year, given in this order
LeapYearGroupedCalled ==
    /\ result.op = "groupByYear"
    /\ result.arg = 540
    /\ Len(records) = 3
    /\ records[1].date = 20001231 /\ records[2].date = 20000229
    /\ YearOf(records[3].date) # 2000
    /\ result.value.get[2000][1].dayOfYear = 60
    /\ result.value.get[2000][2].dayOfYear = 366

(***************************************************************************)
(* C26.  No engine function changes its input: after any sequence of calls *)
(* of the calc* functions, detectAnomalies, decomposeSeasonality,          *)
(* groupByYear and movingAverage the record list (and the series given to  *)
(* movingAverage) holds the same records in the same order, and a result   *)
(* returned by an earlier call is not altered by a later call: it stays    *)
(* what its function returns for the input.                                *)
(***************************************************************************)
\* what the function op returns for the argument arg on the records recs and
\* the series
ResultOf(op, arg, recs, series) ==
    CASE op = "calcBaselineAnnualMean" -> Returned(op, arg, calcBaselineAnnualMean(recs))
      [] op = "calcBaselineMonthlyMeans" ->
             Returned(op, arg, calcBaselineMonthlyMeans(recs, arg.startYear, arg.endYear))
      [] op = "calcBaselineDailyMeans" -> Returned(op, arg, calcBaselineDailyMeans(recs))
      [] op = "calcAnnualAnomalies" -> Returned(op, arg, calcAnnualAnomalies(recs))
      [] op = "calcMonthlyAnomalies" -> Returned(op, arg, calcMonthlyAnomalies(recs))
      [] op = "calcDecadeStats" -> Returned(op, arg, calcDecadeStats(recs))
      [] op = "calcCityStats" -> Returned(op, arg, calcCityStats(recs))
      [] op = "movingAverage" -> Returned(op, arg, movingAverage(series, arg))
      [] op = "groupByYear" -> Returned(op, arg, groupByYear(recs, arg))
      [] op = "calcForecast" -> Returned(op, arg, calcForecast(recs, arg))
      [] op = "detectAnomalies" -> Returned(op, arg, detectAnomalies(recs, arg))
      [] op = "decomposeSeasonality" -> Outcome(op, arg, decomposeSeasonality(recs))

\* a step in which an engine function is called and returns (or throws)
CallMade == result.op = NoResult.op /\ result'.op # NoResult.op

EngineCallsChangeNothing ==
    /\ [][CallMade => (records' = records /\ data' = data /\ held' = held)]_vars
    /\ [](held.op # Nothing.op => held = ResultOf(held.op, held.arg, records, data))

\* groupByYear has been called on records that are not in the order of their
\* dates, while the anomalies of an earlier call are held and the series made
\* of them has been smoothed or is about to be
LaterCallWhileHeldCalled ==
    /\ result.op = "groupByYear"
    /\ held.op = "calcAnnualAnomalies"
    /\ Len(held.value) = 1
    /\ Len(data) = 1
    /\ ~Chronological(records)

(***************************************************************************)
(* C27.  On the Home page, for any sequence of city selections and any     *)
(* order in which the loads started complete or fail: whenever loading is  *)
(* false and no load is in flight, the records shown are those of the city *)
(* selected (or none, where its load has failed).  A response for an       *)
(* earlier selection that arrives late never replaces the data of the      *)
(* latest selection, and a failed load does not leave the records of the   *)
(* previous city shown under the new city.                                 *)
(***************************************************************************)
\* the page shows its charts and waits for nothing
HomeIdle == ~home.loading /\ home.loads = <<>>

ShownRecordsOfSelectedCity ==
    HomeIdle => home.records \in {home.selectedCity, "none"}

\* no load has failed, and the page shows under the city selected the
\* records of a city selected before it
LateResponseShown ==
    /\ HomeIdle
    /\ home.errors = 0
    /\ home.records # home.selectedCity

\* the only load that has failed is the one of the city selected, and the
\* page shows the records of the city before it
FailedLoadLeavesPrevious ==
    /\ HomeIdle
    /\ home.selections = 1
    /\ home.errors = 1
    /\ home.records = "seoul"
    /\ home.selectedCity # "seoul"

\* while loading is true a load is in flight
LoadingWhileAsking ==
    home.loading => home.loads # <<>>

(***************************************************************************)
(* C28.  In fetchCityData the paging loop of every date chunk ends for     *)
(* every sequence of API responses, also when a page returns no items or   *)
(* the pages hold fewer items in total than the reported totalCount, so    *)
(* that fetchCityData returns in the end; and a page error ends its chunk  *)
(* and lets the following chunks be fetched.                               *)
(***************************************************************************)
FetchCityDataReturns == <>paging.done

\* a page error ends the chunk: the next chunk starts at its first page, or
\* fetchCityData returns after the last chunk
ErrorEndsChunk ==
    [][PageFails =>
          \/ (paging.year + CHUNK_YEARS > END_YEAR /\ paging'.done)
          \/ (~paging'.done /\ paging'.year = paging.year + CHUNK_YEARS
                  /\ paging'.pageNo = 1 /\ paging'.fetched = 0)]_vars

\* the loop stays in a chunk only while pages leave fetched below totalCount
ChunkLeftWhenCountReached ==
    ~paging.done => paging.fetched < paging.totalCount

\* the loop is past page MaxPage of a chunk without a single item
AskingPastEmptyPages ==
    /\ ~paging.done
    /\ paging.pageNo = MaxPage
    /\ paging.fetched = 0
    /\ paging.totalCount = 1

(***************************************************************************)
(* C29.  The 'recent 5-year average' of tropical nights and of heatwave    *)
(* days that StatsPanel shows is the mean count over the five most recent  *)
(* calendar years present in the data, a year without an exceedance day    *)
(* counting as 0; and the 'early 5-year average' likewise over the five    *)
(* earliest years.                                                         *)
(***************************************************************************)
\* the five most recent and the five earliest of the years (all of them when
\* there are five or fewer)
FiveMostRecent(years) == {Y \in years : Cardinality({Z \in years : Z > Y}) < 5}

FiveEarliest(years) == {Y \in years : Cardinality({Z \in years : Z < Y}) < 5}

\* the mean of count[Y] over the years Ys
MeanCountOver(Ys, count) ==
    LET at == SortedBy(Ys, [Y \in Ys |-> Y])
    IN  Div(R(SumInt([k \in DOMAIN at |-> count[at[k]]], 1, Len(at))), R(Len(at)))

FiveYearAveragesOverYears ==
    (result.op = "StatsPanel" /\ records # <<>>) =>
        LET years == YearsIn(records)
            tn == [Y \in years |-> TropicalNightsIn(records, Y)]
            hw == [Y \in years |-> HeatwaveDaysIn(records, Y)]
        IN  /\ result.value.avgRecentTropical = MeanCountOver(FiveMostRecent(years), tn)
            /\ result.value.avgRecentHeatwave = MeanCountOver(FiveMostRecent(years), hw)
            /\ result.value.avgEarlyTropical = MeanCountOver(FiveEarliest(years), tn)
            /\ result.value.avgEarlyHeatwave = MeanCountOver(FiveEarliest(years), hw)

\* where every year of the data has a tropical night and a heatwave day, the
\* averages are those over the years
AveragesOverYearsWithExceedance ==
    (result.op = "StatsPanel" /\ records # <<>>
        /\ \A Y \in YearsIn(records) :
               TropicalNightsIn(records, Y) >= 1 /\ HeatwaveDaysIn(records, Y) >= 1) =>
        LET years == YearsIn(records)
            tn == [Y \in years |-> TropicalNightsIn(records, Y)]
            hw == [Y \in years |-> HeatwaveDaysIn(records, Y)]
        IN  /\ result.value.avgRecentTropical = MeanCountOver(FiveMostRecent(years), tn)
            /\ result.value.avgRecentHeatwave = MeanCountOver(FiveMostRecent(years), hw)
            /\ result.value.avgEarlyTropical = MeanCountOver(FiveEarliest(years), tn)
            /\ result.value.avgEarlyHeatwave = MeanCountOver(FiveEarliest(years), hw)

\* StatsPanel rendered with data of three years, one of them without a
\* tropical night: it shows the mean over the other two
YearWithoutExceedanceRendered ==
    /\ result.op = "StatsPanel"
    /\ Cardinality(YearsIn(records)) = 3
    /\ Cardinality({Y \in YearsIn(records) : TropicalNightsIn(records, Y) = 0}) = 1
    /\ result.value.avgRecentTropical = R(2)

---------------------------------------------------------------------------
(***************************************************************************)
(* C30.  In the HexMap, once the data is loaded the period is always one   *)
(* of the generated periods.  While playing, a tick of the timer moves the *)
(* period to the next one in order; at the last period it moves nowhere    *)
(* and playing becomes false, so that playing that has reached the last    *)
(* period always ends.  The play button pressed on the last period while   *)
(* not playing starts over from the first period, and the button of a      *)
(* period stops playing and selects that period.                           *)
(***************************************************************************)

\* the period shown is the last of the periods
OnLastPeriod ==
    indexOf(generatePeriods, hexMap.period) = Len(generatePeriods) - 1

\* the period one place after the one shown
NextPeriod ==
    At(generatePeriods, indexOf(generatePeriods, hexMap.period) + 1)

PeriodsPlayedInOrder ==
    /\ [](~hexMap.loading =>
            \E i \in 1..Len(generatePeriods) :
                hexMap.period = generatePeriods[i])
    /\ [][Tick =>
            IF OnLastPeriod
            THEN hexMap'.period = hexMap.period /\ ~hexMap'.playing
            ELSE hexMap'.period = NextPeriod /\ hexMap'.playing]_vars
    /\ [][handlePlay /\ ~hexMap.playing /\ OnLastPeriod =>
            hexMap'.period = generatePeriods[1] /\ hexMap'.playing]_vars
    /\ [][\A i \in 1..Len(generatePeriods) :
            ClickPeriod(generatePeriods[i]) =>
                hexMap'.period = generatePeriods[i] /\ ~hexMap'.playing]_vars
    /\ (hexMap.playing /\ OnLastPeriod) ~> ~hexMap.playing

\* playing has reached the last period: the play button leaves it and a
\* period button stops playing, so only the timer has brought it here
PlayedToLastPeriod ==
    ~hexMap.loading /\ hexMap.playing /\ OnLastPeriod

=============================================================================
